---- MODULE Spec2Model ----
(***************************************************************************)
(* Messaging core of the notification backend: the publish path            *)
(* (MessagePublisher), the Metadata Store it reads and writes              *)
(* (DropboxManager), the broker topology it publishes into (AMQPManager)   *)
(* and the consume path (MessageConsumer).                                 *)
(*                                                                         *)
(* Granularity: one action per collaborator call (a Metadata Store get or  *)
(* put, a broker basic_publish / basic_ack / basic_nack); the local        *)
(* computation between two collaborator calls belongs to the action of the *)
(* call that follows or precedes it.  Every collaborator call can fail;    *)
(* the set F of an action is the set of results the call may have          *)
(* (TRUE = the call succeeded).                                            *)
(***************************************************************************)
EXTENDS Integers, Sequences, FiniteSets, TLC

(* ------------------------------ bounds --------------------------------- *)
\* settings.daily_message_limit (env DAILY_MESSAGE_LIMIT), kept small
daily_message_limit == 2
\* number of envelope ids uuid4() hands out in one behaviour
MaxMsgs == 3
\* last calendar day of a behaviour (days are 0..MaxDay)
MaxDay == 1
\* a message is resent only while its retry_count is below MaxRetry
MaxRetry == 1
\* the broker takes no foreign message while failed.<id> holds this many
MaxDead == 1
\* number of message ids other producers use
MaxForeign == 1
\* longest batch handed to send_bulk_messages
MaxBatch == 2
\* other producers publish to insurance.workflow only while every workflow
\* queue holds fewer messages than this
MaxWorkflow == 1

(* ------------------------------ constants ------------------------------ *)
Procs == {1, 2}
\* clients that went through register_client
Clients == {"A", "B", "C"}
\* a client id nobody registered: it has no metadata.json and no queue
Unregistered == "X"
ClientIds == Clients \cup {Unregistered}

\* value of download_json() when the download or the parse failed
NotFound == [found |-> FALSE]
\* dict.get('retry_count', 0) on an envelope without the key
NoRetryCount == -1
\* a batch item without the 'client_id' key
NoClient == "unknown"
\* MessageType (enum), the kinds process_message has a handler for
MessageType == {"document_request", "claim_update", "payment_reminder",
                "enrollment_notification", "beneficiary_update",
                "system_alert"}

VARIABLES
    today,              \* date.today()
    client_metadata,    \* Metadata Store: /clients/<id>/metadata.json
    archive,            \* Metadata Store: /clients/<id>/messages/<msg>.json
    queue,              \* broker: messages held by queue client.<id>
    failed_queue,       \* broker: messages held by queue failed.<id>
    next_uuid,          \* number of ids uuid4() has handed out
    proc,               \* each caller's position in the publisher code
    history,            \* outcomes a sequential caller has seen today
    consumer,           \* the consumer of client.<id>: position, delivery
    audit,              \* Audit Sink: keys under /clients/<id>/audit/
    amqp,               \* the AMQPManager: connection, channel, position
    topology,           \* broker: exchanges, queues and bindings declared
    workflow_archive,   \* Metadata Store: ids under /workflow/messages/
    workflow_queue,     \* broker: messages held by each workflow queue
    workflow_consumer   \* the consumer of each workflow queue

vars == <<today, client_metadata, archive, queue, failed_queue, next_uuid,
          proc, history, consumer, audit, amqp, topology, workflow_archive,
          workflow_queue, workflow_consumer>>

amqpVars == <<amqp, topology>>
workflowVars == <<workflow_archive, workflow_queue, workflow_consumer>>

\* everything but the manager and the broker topology
coreVars == <<today, client_metadata, archive, queue, failed_queue, next_uuid,
              proc, history, consumer, audit, workflowVars>>

storeVars == <<client_metadata, archive>>
brokerVars == <<queue, failed_queue>>
consumerVars == <<consumer, audit>>

(* --------------------------- Metadata Store ---------------------------- *)
\* register_client, step 3: the record a newly registered client gets
NewClientMetadata(day) ==
    [found |-> TRUE, message_count_today |-> 0, last_reset |-> day,
     is_active |-> TRUE]

\* DropboxManager.get_client_metadata -> download_json: None on any failure
get_client_metadata(c, ok) ==
    IF ok /\ client_metadata[c].found THEN client_metadata[c] ELSE NotFound

\* DropboxManager.update_client_metadata -> upload_json (WriteMode overwrite):
\* the new contents of the store; a failed upload leaves the store as it was
update_client_metadata(c, m, ok) ==
    IF ok THEN [client_metadata EXCEPT ![c] = m] ELSE client_metadata

\* DropboxManager.upload_json of an envelope at
\* /clients/<client_id>/messages/<id>.json
upload_message(m, ok) ==
    IF ok THEN [archive EXCEPT ![m.id] = m] ELSE archive

\* DropboxManager.download_json of /clients/<c>/messages/<id>.json
download_message(c, id, ok) ==
    IF ok /\ archive[id].found /\ archive[id].client_id = c
    THEN archive[id] ELSE NotFound

(* ------------------------------- broker -------------------------------- *)
\* x-max-length of client.<id>: create_client_queue(client_id) is called by
\* register_client without a limit, so limit = self.daily_message_limit
MaxLength(c) == daily_message_limit

\* json.dumps(message) as the consumer will see it
Body(m) ==
    [kind |-> "object", id |-> m.id, client_id |-> m.client_id,
     type |-> m.type, retry_count |-> m.retry_count]

(* ------------------------------ callers -------------------------------- *)
\* results of send_bulk_messages (lines 180-184)
NoResults == [successful |-> <<>>, failed |-> <<>>, limit_exceeded |-> <<>>]

Idle == [op |-> "idle", pc |-> "idle", caller |-> "none", client_id |-> "",
         metadata |-> NotFound, message |-> NotFound, result |-> "none",
         calls |-> <<>>, batch |-> <<>>, index |-> 0, results |-> NoResults]

\* one collaborator call as a recording stub would log it
Log(r, name, ok) == [r EXCEPT !.calls = Append(@, [name |-> name, ok |-> ok])]

\* an entry of a bucket of send_bulk_messages; `item` is the position of the
\* batch item the entry was appended for
Entry(r) == [item |-> r.index, client_id |-> r.batch[r.index].client_id]

\* send_client_message returns: res = "sent" is the result dict of lines
\* 66-71, "failed" is None, "limit_exceeded" is the raised
\* MessageLimitExceededException.  send_bulk_messages (lines 207-220) sorts
\* a result into `successful`, None and every exception into `failed`.
SendReturn(r, res) ==
    IF r.op = "bulk"
    THEN IF res = "sent"
         THEN [r EXCEPT !.pc = "bulk_loop",
                        !.results.successful = Append(@, Entry(r))]
         ELSE [r EXCEPT !.pc = "bulk_loop",
                        !.results.failed = Append(@, Entry(r))]
    ELSE [r EXCEPT !.pc = "done", !.result = res]

\* send_bulk_messages leaving its loop (break for continue, line 196) at the
\* first item over quota
CheckReturnBreak(r, allowed) ==
    IF r.caller = "bulk"
    THEN IF ~allowed
         THEN [r EXCEPT !.pc = "done", !.result = "bulk",
                        !.results.limit_exceeded = Append(@, Entry(r))]
         ELSE IF ~r.batch[r.index].type_ok
         THEN [r EXCEPT !.pc = "bulk_loop",
                        !.results.failed = Append(@, Entry(r))]
         ELSE [r EXCEPT !.pc = "check_read", !.caller = "send"]
    ELSE IF allowed
    THEN [r EXCEPT !.pc = "archive",
                   !.message = [found |-> TRUE, id |-> next_uuid + 1,
                                client_id |-> r.client_id,
                                type |-> "claim_update",
                                retry_count |-> NoRetryCount]]
    ELSE SendReturn(r, "limit_exceeded")

\* check_message_limit returns `allowed`: to send_client_message (lines
\* 37-49), which raises or builds the envelope, or to send_bulk_messages
\* (lines 191-207), which fills limit_exceeded or builds MessageCreate and
\* calls send_client_message
CheckReturn(r, allowed) ==
    IF r.caller = "bulk"
    THEN IF ~allowed
         THEN [r EXCEPT !.pc = "bulk_loop",
                        !.results.limit_exceeded = Append(@, Entry(r))]
         ELSE IF ~r.batch[r.index].type_ok
         THEN [r EXCEPT !.pc = "bulk_loop",
                        !.results.failed = Append(@, Entry(r))]
         ELSE [r EXCEPT !.pc = "check_read", !.caller = "send"]
    ELSE IF allowed
    THEN [r EXCEPT !.pc = "archive",
                   !.message = [found |-> TRUE, id |-> next_uuid + 1,
                                client_id |-> r.client_id,
                                type |-> "claim_update",
                                retry_count |-> NoRetryCount]]
    ELSE SendReturn(r, "limit_exceeded")

\* uuid4() of line 42 is drawn when send_client_message passed the check
DrawsUuid(r, allowed) == r.caller = "send" /\ allowed

(* ----------------------------- AMQPManager ----------------------------- *)
\* setup_infrastructure: the exchanges, in the order they are declared
Exchanges == <<"insurance.direct", "insurance.workflow", "insurance.dlx">>

\* x-message-ttl of a client queue, in milliseconds
x_message_ttl == 86400000

\* message_limit = None
NoLimit == -1

\* the values of message_limit a caller passes to create_client_queue
MessageLimits == {NoLimit} \cup 0..daily_message_limit

\* the string prefix + client_id: a queue name f"client.{client_id}" or
\* f"failed.{client_id}", or a routing key (client_id, f"failed.{client_id}")
Name(prefix, c) == [prefix |-> prefix, id |-> c]

\* create_client_queue, line 104: message_limit or self.daily_message_limit
Limit(message_limit) ==
    IF message_limit = NoLimit \/ message_limit = 0
    THEN daily_message_limit ELSE message_limit

\* create_client_queue, lines 107-113: arguments of client.<id>
ClientQueueArguments(c, message_limit) ==
    [ttl |-> x_message_ttl, max_length |-> Limit(message_limit),
     overflow |-> "reject-publish", dlx |-> "insurance.dlx",
     dl_key |-> Name("failed.", c)]

\* create_client_queue, lines 130-133: failed.<id> is declared without arguments
NoArguments ==
    [ttl |-> 0, max_length |-> NoLimit, overflow |-> "", dlx |-> "",
     dl_key |-> Name("", "")]

Queue(name, arguments) == [name |-> name, arguments |-> arguments]
Binding(exchange, name, routing_key) ==
    [exchange |-> exchange, queue |-> name, routing_key |-> routing_key]

\* what the broker does with the methods of a channel.  queue.declare is
\* accepted for a new name and for an existing queue of equal arguments
\* (another argument set is PRECONDITION_FAILED); queue.bind needs the
\* exchange and the queue (else NOT_FOUND); queue.delete of a queue that
\* does not exist is accepted and deletes nothing.
Declared(t, name) == \E q \in t.queues : q.name = name

exchange_declare(t, exchange) == [t EXCEPT !.exchanges = @ \cup {exchange}]

queue_declare_ok(t, name, arguments) ==
    \A q \in t.queues : q.name = name => q.arguments = arguments

queue_declare(t, name, arguments) ==
    [t EXCEPT !.queues = @ \cup {Queue(name, arguments)}]

queue_bind_ok(t, exchange, name) ==
    exchange \in t.exchanges /\ Declared(t, name)

queue_bind(t, exchange, name, routing_key) ==
    [t EXCEPT !.bindings = @ \cup {Binding(exchange, name, routing_key)}]

queue_delete(t, name) ==
    [t EXCEPT !.queues = {q \in @ : q.name # name},
              !.bindings = {b \in @ : b.queue # name}]

\* the queues and bindings create_client_queue(c, message_limit) sets up
ClientQueues(c, message_limit) ==
    {Queue(Name("client.", c), ClientQueueArguments(c, message_limit)),
     Queue(Name("failed.", c), NoArguments)}

ClientBindings(c) ==
    {Binding("insurance.direct", Name("client.", c), Name("", c)),
     Binding("insurance.dlx", Name("failed.", c), Name("failed.", c))}

\* setup_workflow_queues, lines 272-279: the names of the workflow queues,
\* each a domain prefix and a word, in the order they are set up
workflow_queues ==
    <<Name("enrollment.", "requests"), Name("enrollment.", "completed"),
      Name("claims.", "submitted"), Name("claims.", "processed"),
      Name("payments.", "due"), Name("payments.", "completed")>>

WorkflowQueues == {workflow_queues[i] : i \in 1..Len(workflow_queues)}

\* a broker nothing was declared on
NoTopology == [exchanges |-> {}, queues |-> {}, bindings |-> {}]

\* the broker after startup and register_client of every client
Registered ==
    [exchanges |-> {Exchanges[i] : i \in 1..Len(Exchanges)},
     queues |-> UNION {ClientQueues(c, NoLimit) : c \in Clients},
     bindings |-> UNION {ClientBindings(c) : c \in Clients}]

\* the arguments the queue `name` was declared with
Arguments(t, name) == (CHOOSE q \in t.queues : q.name = name).arguments

\* a direct exchange hands a message to the queues that are bound to it with
\* exactly the routing key of the message
DirectRoute(t, exchange, routing_key) ==
    {b.queue : b \in {x \in t.bindings :
                        /\ x.exchange = exchange
                        /\ x.routing_key = routing_key}}

\* the messages of queue `name` after the exchange routed `body` to the
\* queues `targets`: a full queue rejects the message (x-overflow =
\* reject-publish)
Routed(q, name, targets, body) ==
    IF /\ name \in targets
       /\ \/ Arguments(topology, name).max_length = NoLimit
          \/ Len(q) < Arguments(topology, name).max_length
    THEN Append(q, body) ELSE q

\* the client queues after basic_publish(exchange='insurance.direct',
\* routing_key=c, body).  The channel is not in confirm mode and the publish
\* is not mandatory: a message that no queue is bound for, or that a full
\* queue rejects, is discarded by the broker and nothing is reported to the
\* publisher.
Enqueue(c, body) ==
    LET targets == DirectRoute(topology, "insurance.direct", Name("", c))
    IN  [x \in Clients |->
            Routed(queue[x], Name("client.", x), targets, body)]

\* the dead-letter queues after client.<c> dead-lettered `body`: the broker
\* publishes it to the x-dead-letter-exchange of the queue with its
\* x-dead-letter-routing-key
DeadLetter(c, body) ==
    IF Declared(topology, Name("client.", c))
    THEN LET a == Arguments(topology, Name("client.", c))
             targets == DirectRoute(topology, a.dlx, a.dl_key)
         IN  [x \in Clients |->
                 Routed(failed_queue[x], Name("failed.", x), targets, body)]
    ELSE failed_queue

\* the messages a queue holds after queue_delete: none
Purge(q, c) == IF c \in Clients THEN [q EXCEPT ![c] = <<>>] ELSE q

NoOperation ==
    [op |-> "idle", client_id |-> "", message_limit |-> NoLimit,
     result |-> FALSE]

\* AMQPManager.__init__: connection = None, channel = None.  `declared` are
\* the exchanges declared over the current connection, `app` the state of
\* the application (lifespan), `last` the operation that returned last.
Disconnected ==
    [connection |-> "none", channel |-> "none", declared |-> {},
     app |-> "starting", op |-> "idle", pc |-> "idle", client_id |-> "",
     message_limit |-> NoLimit, index |-> 0, calls |-> <<>>,
     refused |-> FALSE, fault |-> FALSE, result |-> FALSE,
     last |-> NoOperation]

\* the manager of a running application
Connected ==
    [Disconnected EXCEPT !.connection = "open", !.channel = "open",
                         !.declared = Registered.exchanges,
                         !.app = "running"]

\* AMQPManager.is_connected
is_connected == amqp.connection # "none" /\ amqp.connection # "closed"

\* the manager after a method of the channel; `ok` is FALSE when the call
\* broke down on its way, `allowed` is the broker's answer to the method.
\* Accepted, the operation goes on at `next`.  Otherwise the method raised
\* and the except clause of the operation returns False:
\* ChannelWrongStateError on a channel that is not open, ChannelClosedByBroker
\* when the broker refused the method, which closes the channel.
Accepted(ok, allowed) == amqp.channel = "open" /\ ok /\ allowed

AfterMethod(name, ok, allowed, next) ==
    IF Accepted(ok, allowed)
    THEN [Log(amqp, name, TRUE) EXCEPT !.pc = next, !.result = (next = "done")]
    ELSE [Log(amqp, name, FALSE) EXCEPT
             !.pc = "done", !.result = FALSE,
             !.channel = IF @ = "open" THEN "closed" ELSE @,
             !.refused = @ \/ amqp.channel = "open",
             !.fault = @ \/ ~ok]

\* an operation of the manager begins
Begin(op, pc, c, message_limit) ==
    [amqp EXCEPT !.op = op, !.pc = pc, !.client_id = c,
                 !.message_limit = message_limit, !.index = 0,
                 !.calls = <<>>, !.refused = FALSE, !.fault = FALSE,
                 !.result = FALSE]

(* ------------------------------- Init ---------------------------------- *)
NoDelivery == [pc |-> "idle", body |-> NotFound, calls |-> <<>>,
               outcome |-> "none"]

\* a workflow consumer: `routing_key` is method.routing_key of the delivery
NoWorkflowDelivery ==
    [pc |-> "idle", routing_key |-> Name("", ""), body |-> NotFound,
     calls |-> <<>>, outcome |-> "none"]

Init ==
    /\ today = 0
    /\ client_metadata = [c \in ClientIds |->
            IF c \in Clients THEN NewClientMetadata(0) ELSE NotFound]
    /\ archive = [i \in 1..MaxMsgs |-> NotFound]
    /\ queue = [c \in Clients |-> <<>>]
    /\ failed_queue = [c \in Clients |-> <<>>]
    /\ next_uuid = 0
    /\ proc = [p \in Procs |-> Idle]
    /\ history = [c \in ClientIds |-> <<>>]
    /\ consumer = [c \in Clients |-> NoDelivery]
    /\ audit = {}
    /\ amqp = Connected
    /\ topology = Registered
    /\ workflow_archive = {}
    /\ workflow_queue = [q \in WorkflowQueues |-> <<>>]
    /\ workflow_consumer = [q \in WorkflowQueues |-> NoWorkflowDelivery]

(* ------------------------- send_client_message ------------------------- *)
\* ids still to be drawn by calls that have not built their envelope yet
Reserved ==
    Cardinality({q \in Procs :
        proc[q].pc \in {"check_read", "check_reset", "deactivate_read",
                        "deactivate_write"}})

\* a caller enters send_client_message(c, message_data)
SendClientMessage(p, c) ==
    /\ proc[p].op = "idle"
    /\ next_uuid + Reserved < MaxMsgs
    /\ proc' = [proc EXCEPT ![p] =
            [Idle EXCEPT !.op = "send", !.pc = "check_read",
                         !.caller = "send", !.client_id = c]]
    /\ UNCHANGED <<today, amqpVars, workflowVars, storeVars, brokerVars, next_uuid, history,
                   consumerVars>>

\* check_message_limit, lines 119-122: read the client's metadata
CheckRead(p, F) ==
    /\ proc[p].pc = "check_read"
    /\ \E ok \in F :
         LET m == get_client_metadata(proc[p].client_id, ok)
             r == Log(proc[p], "get_client_metadata", ok)
         IN  proc' = [proc EXCEPT ![p] =
                 IF m.found
                 THEN [r EXCEPT !.pc = "check_reset", !.metadata = m]
                 ELSE CheckReturn(r, FALSE)]
    /\ UNCHANGED <<today, amqpVars, workflowVars, storeVars, brokerVars, next_uuid, history,
                   consumerVars>>

\* the comparison of line 135 written with <= (one message too many)
AllowedInclusive(m) == m.message_count_today <= daily_message_limit

\* check_message_limit, line 135
Allowed(m) == m.message_count_today < daily_message_limit

\* check_message_limit, lines 126-129: the metadata after the daily reset
ResetCounter(m, day) ==
    [m EXCEPT !.message_count_today = 0, !.last_reset = day]

\* check_message_limit, lines 124-135: reset on a new day, then compare
CheckReset(p, F) ==
    /\ proc[p].pc = "check_reset"
    /\ LET c == proc[p].client_id
           m == proc[p].metadata
       IN  IF m.last_reset # today
           THEN \E ok \in F :
                  LET n == ResetCounter(m, today)
                      r == Log([proc[p] EXCEPT !.metadata = n],
                               "update_client_metadata", ok)
                  IN  /\ client_metadata' = update_client_metadata(c, n, ok)
                      /\ proc' = [proc EXCEPT ![p] = CheckReturn(r, Allowed(n))]
                      /\ next_uuid' = IF DrawsUuid(r, Allowed(n))
                                      THEN next_uuid + 1 ELSE next_uuid
           ELSE /\ proc' = [proc EXCEPT ![p] = CheckReturn(proc[p], Allowed(m))]
                /\ next_uuid' = IF DrawsUuid(proc[p], Allowed(m))
                                THEN next_uuid + 1 ELSE next_uuid
                /\ UNCHANGED client_metadata
    /\ UNCHANGED <<today, amqpVars, workflowVars, archive, brokerVars, history, consumerVars>>

\* lines 51-55 without the test of upload_json's result
ArchiveUnchecked(p, F) ==
    /\ proc[p].pc = "archive"
    /\ \E ok \in F :
         /\ archive' = upload_message(proc[p].message, ok)
         /\ proc' = [proc EXCEPT ![p] =
                [Log(proc[p], "upload_json", ok) EXCEPT !.pc = "publish"]]
    /\ UNCHANGED <<today, amqpVars, workflowVars, client_metadata, brokerVars, next_uuid, history,
                   consumerVars>>

\* send_client_message, lines 51-55: archive the envelope
Archive(p, F) ==
    /\ proc[p].pc = "archive"
    /\ \E ok \in F :
         LET r == Log(proc[p], "upload_json", ok)
         IN  /\ archive' = upload_message(proc[p].message, ok)
             /\ proc' = [proc EXCEPT ![p] =
                    IF ok THEN [r EXCEPT !.pc = "publish"]
                    ELSE SendReturn(r, "failed")]
    /\ UNCHANGED <<today, amqpVars, workflowVars, client_metadata, brokerVars, next_uuid, history,
                   consumerVars>>

\* AMQPManager.publish_message: True unless basic_publish raised
publish_message(ok) == ok

\* lines 57-60 without the test of publish_client_message's result
PublishUnchecked(p, F) ==
    /\ proc[p].pc = "publish"
    /\ \E ok \in F :
         /\ queue' = IF ok THEN Enqueue(proc[p].client_id,
                                       Body(proc[p].message))
                      ELSE queue
         /\ proc' = [proc EXCEPT ![p] =
                [Log(proc[p], "publish_client_message", ok) EXCEPT
                    !.pc = "incr_read"]]
    /\ UNCHANGED <<today, amqpVars, workflowVars, storeVars, failed_queue, next_uuid,
                   history, consumerVars>>

\* send_client_message, lines 57-60: publish_client_message
Publish(p, F) ==
    /\ proc[p].pc = "publish"
    /\ \E ok \in F :
         LET r == Log(proc[p], "publish_client_message", ok)
         IN  /\ queue' = IF ok THEN Enqueue(proc[p].client_id,
                                           Body(proc[p].message))
                          ELSE queue
             /\ proc' = [proc EXCEPT ![p] =
                    IF publish_message(ok) THEN [r EXCEPT !.pc = "incr_read"]
                    ELSE SendReturn(r, "failed")]
    /\ UNCHANGED <<today, amqpVars, workflowVars, storeVars, failed_queue, next_uuid, history,
                   consumerVars>>

\* increment_message_counter, lines 144-147: read the metadata again
IncrRead(p, F) ==
    /\ proc[p].pc = "incr_read"
    /\ \E ok \in F :
         LET m == get_client_metadata(proc[p].client_id, ok)
             r == Log(proc[p], "get_client_metadata", ok)
         IN  proc' = [proc EXCEPT ![p] =
                 IF m.found
                 THEN [r EXCEPT !.pc = "incr_write", !.metadata = m]
                 ELSE SendReturn(r, "sent")]
    /\ UNCHANGED <<today, amqpVars, workflowVars, storeVars, brokerVars, next_uuid, history,
                   consumerVars>>

\* increment_message_counter, line 149
IncrementCounter(m) == [m EXCEPT !.message_count_today = @ + 1]

\* increment_message_counter, lines 149-152, and the return of lines 65-71
IncrWrite(p, F) ==
    /\ proc[p].pc = "incr_write"
    /\ \E ok \in F :
         LET c == proc[p].client_id
             n == IncrementCounter(proc[p].metadata)
             r == Log([proc[p] EXCEPT !.metadata = n],
                      "update_client_metadata", ok)
         IN  /\ client_metadata' = update_client_metadata(c, n, ok)
             /\ proc' = [proc EXCEPT ![p] = SendReturn(r, "sent")]
    /\ UNCHANGED <<today, amqpVars, workflowVars, archive, brokerVars, next_uuid, history,
                   consumerVars>>

\* the caller takes the result of the operation
Return(p) ==
    /\ proc[p].pc = "done"
    /\ proc' = [proc EXCEPT ![p] = Idle]
    /\ UNCHANGED <<today, amqpVars, workflowVars, storeVars, brokerVars, next_uuid, history,
                   consumerVars>>

\* the calendar day changes
Midnight ==
    /\ today < MaxDay
    /\ today' = today + 1
    /\ history' = [c \in ClientIds |-> <<>>]
    /\ UNCHANGED <<amqpVars, workflowVars, storeVars, brokerVars, next_uuid, proc,
                   consumerVars>>

(* ------------------------ resend_failed_message ------------------------ *)
\* message.get('retry_count', 0)
RetryCount(m) == IF m.retry_count = NoRetryCount THEN 0 ELSE m.retry_count

\* resend_failed_message, lines 275-276: the envelope to re-archive
Retried(m) == [m EXCEPT !.retry_count = RetryCount(m) + 1]

\* a caller enters resend_failed_message(id, c)
ResendFailedMessage(p, id, c) ==
    /\ proc[p].op = "idle"
    /\ id \in 1..next_uuid
    /\ archive[id].found => RetryCount(archive[id]) < MaxRetry
    /\ proc' = [proc EXCEPT ![p] =
            [Idle EXCEPT !.op = "resend", !.pc = "resend_read",
                         !.client_id = c,
                         !.message = [found |-> FALSE, id |-> id]]]
    /\ UNCHANGED <<today, amqpVars, workflowVars, storeVars, brokerVars, next_uuid, history,
                   consumerVars>>

\* resend_failed_message, lines 267-276: download the archived envelope
ResendRead(p, F) ==
    /\ proc[p].pc = "resend_read"
    /\ \E ok \in F :
         LET m == download_message(proc[p].client_id, proc[p].message.id, ok)
             r == Log(proc[p], "download_json", ok)
         IN  proc' = [proc EXCEPT ![p] =
                 IF m.found
                 THEN [r EXCEPT !.pc = "resend_archive", !.message = Retried(m)]
                 ELSE [r EXCEPT !.pc = "done", !.result = "false"]]
    /\ UNCHANGED <<today, amqpVars, workflowVars, storeVars, brokerVars, next_uuid, history,
                   consumerVars>>

\* resend_failed_message, line 279: re-archive; the result is not looked at
ResendArchive(p, F) ==
    /\ proc[p].pc = "resend_archive"
    /\ \E ok \in F :
         /\ archive' = upload_message(proc[p].message, ok)
         /\ proc' = [proc EXCEPT ![p] =
                [Log(proc[p], "upload_json", ok) EXCEPT !.pc = "resend_publish"]]
    /\ UNCHANGED <<today, amqpVars, workflowVars, client_metadata, brokerVars, next_uuid, history,
                   consumerVars>>

\* resend_failed_message, lines 282-289: republish and return `success`
ResendPublish(p, F) ==
    /\ proc[p].pc = "resend_publish"
    /\ \E ok \in F :
         /\ queue' = IF ok THEN Enqueue(proc[p].client_id,
                                       Body(proc[p].message))
                      ELSE queue
         /\ proc' = [proc EXCEPT ![p] =
                [Log(proc[p], "publish_client_message", ok) EXCEPT
                    !.pc = "done",
                    !.result = IF publish_message(ok) THEN "true" ELSE "false"]]
    /\ UNCHANGED <<today, amqpVars, workflowVars, storeVars, failed_queue, next_uuid, history,
                   consumerVars>>

(* -------------------------- reset_daily_limits -------------------------- *)
\* a caller (the reset-limits endpoint) enters reset_daily_limits(c)
ResetDailyLimits(p, c) ==
    /\ proc[p].op = "idle"
    /\ proc' = [proc EXCEPT ![p] =
            [Idle EXCEPT !.op = "reset", !.pc = "reset_read",
                         !.client_id = c]]
    /\ UNCHANGED <<today, amqpVars, workflowVars, storeVars, brokerVars, next_uuid, history,
                   consumerVars>>

\* reset_daily_limits, lines 160-166 and 176: read the metadata; it is
\* rewritten only if its last_reset is not today
ResetRead(p, F) ==
    /\ proc[p].pc = "reset_read"
    /\ \E ok \in F :
         LET m == get_client_metadata(proc[p].client_id, ok)
             r == Log(proc[p], "get_client_metadata", ok)
         IN  proc' = [proc EXCEPT ![p] =
                 IF ~m.found
                 THEN [r EXCEPT !.pc = "done", !.result = "false"]
                 ELSE IF m.last_reset # today
                 THEN [r EXCEPT !.pc = "reset_write", !.metadata = m]
                 ELSE [r EXCEPT !.pc = "done", !.result = "true",
                                !.metadata = m]]
    /\ UNCHANGED <<today, amqpVars, workflowVars, storeVars, brokerVars, next_uuid, history,
                   consumerVars>>

\* reset_daily_limits, lines 167-176: write the reset metadata
ResetWrite(p, F) ==
    /\ proc[p].pc = "reset_write"
    /\ \E ok \in F :
         LET c == proc[p].client_id
             n == ResetCounter(proc[p].metadata, today)
             r == Log([proc[p] EXCEPT !.metadata = n],
                      "update_client_metadata", ok)
         IN  /\ client_metadata' = update_client_metadata(c, n, ok)
             /\ proc' = [proc EXCEPT ![p] =
                    [r EXCEPT !.pc = "done",
                              !.result = IF ok THEN "true" ELSE "false"]]
    /\ UNCHANGED <<today, amqpVars, workflowVars, archive, brokerVars, next_uuid, history,
                   consumerVars>>

(* -------------------------- send_bulk_messages ------------------------- *)
\* the dicts a batch is made of: 'client_id' may be missing (KeyError) and
\* 'type' may be no MessageType (ValueError)
Items(C) ==
    [client_id : C, type_ok : BOOLEAN] \cup
    {[client_id |-> NoClient, type_ok |-> TRUE]}

\* the batches of at most MaxBatch items
Batches(C) == UNION {[1..n -> Items(C)] : n \in 0..MaxBatch}

\* a caller enters send_bulk_messages(messages)
SendBulkMessages(p, messages) ==
    /\ proc[p].op = "idle"
    /\ next_uuid + Len(messages) <= MaxMsgs
    /\ proc' = [proc EXCEPT ![p] =
            [Idle EXCEPT !.op = "bulk", !.pc = "bulk_loop",
                         !.batch = messages]]
    /\ UNCHANGED <<today, amqpVars, workflowVars, storeVars, brokerVars, next_uuid, history,
                   consumerVars>>

\* send_bulk_messages, lines 186-191: the loop takes the next item
BulkItem(p) ==
    /\ proc[p].pc = "bulk_loop"
    /\ proc[p].index < Len(proc[p].batch)
    /\ LET item == proc[p].batch[proc[p].index + 1]
           r == [proc[p] EXCEPT !.index = @ + 1, !.calls = <<>>,
                                !.metadata = NotFound, !.message = NotFound]
       IN  proc' = [proc EXCEPT ![p] =
               IF item.client_id = NoClient
               THEN [r EXCEPT !.results.failed = Append(@, Entry(r))]
               ELSE [r EXCEPT !.pc = "check_read", !.caller = "bulk",
                              !.client_id = item.client_id]]
    /\ UNCHANGED <<today, amqpVars, workflowVars, storeVars, brokerVars, next_uuid, history,
                   consumerVars>>

\* send_bulk_messages, lines 222-225: the batch is exhausted
BulkEnd(p) ==
    /\ proc[p].pc = "bulk_loop"
    /\ proc[p].index = Len(proc[p].batch)
    /\ proc' = [proc EXCEPT ![p] = [@ EXCEPT !.pc = "done", !.result = "bulk"]]
    /\ UNCHANGED <<today, amqpVars, workflowVars, storeVars, brokerVars, next_uuid, history,
                   consumerVars>>

(* --------------------------- process_message --------------------------- *)
\* bodies that reach a consumer: what our publisher wrote (Body) and what
\* any other producer on insurance.direct wrote
Undecodable == {"bad_utf8", "not_json", "non_object"}

Malformed(kind) ==
    [kind |-> kind, id |-> 0, client_id |-> "", type |-> "",
     retry_count |-> NoRetryCount]

ExternalBodies(c) ==
    {Malformed(k) : k \in Undecodable} \cup
    {Body([id |-> i, client_id |-> c, type |-> t,
           retry_count |-> NoRetryCount]) :
        i \in 1..MaxForeign, t \in {"claim_update", "not_a_type"}}

\* process_message, line 31-33: what json.loads(body.decode('utf-8')) and the
\* first message.get do.  bytes.decode raises UnicodeDecodeError (a
\* ValueError), json.loads raises json.JSONDecodeError, and .get on a list,
\* a string, a number or None raises AttributeError or TypeError.
Decode(body) ==
    CASE body.kind = "bad_utf8" -> "UnicodeDecodeError"
      [] body.kind = "not_json" -> "JSONDecodeError"
      [] body.kind = "non_object" -> "AttributeError"
      [] OTHER -> "message"

\* the except clause of lines 73-79 an exception of process_message lands in
Handles(exception) ==
    IF exception = "JSONDecodeError" THEN "nack_discard" ELSE "nack_requeue"

\* key of an Audit Sink record: /clients/<client_id>/audit/<name>-<id>.json
AuditKey(name, body) ==
    [name |-> name, client_id |-> body.client_id, id |-> body.id]

\* some producer publishes `body` to insurance.direct with routing key c
ExternalPublish(c, body) ==
    /\ Len(failed_queue[c]) < MaxDead
    /\ queue' = Enqueue(c, body)
    /\ UNCHANGED <<today, amqpVars, workflowVars, storeVars, failed_queue, next_uuid, proc, history,
                   consumerVars>>

\* the broker hands the head of client.<c> to the consumer (prefetch 1,
\* auto_ack False): process_message is called
Deliver(c) ==
    /\ consumer[c].pc = "idle"
    /\ queue[c] # <<>>
    /\ consumer' = [consumer EXCEPT ![c] =
            [NoDelivery EXCEPT !.pc = "received", !.body = Head(queue[c])]]
    /\ queue' = [queue EXCEPT ![c] = Tail(@)]
    /\ UNCHANGED <<today, amqpVars, workflowVars, storeVars, failed_queue, next_uuid, proc, history,
                   audit>>

\* process_message, lines 40-51: the handler of a known kind writes its
\* audit record; each handler catches and logs every exception of its own
Handler(c, F) ==
    /\ consumer[c].pc = "received"
    /\ Decode(consumer[c].body) = "message"
    /\ consumer[c].body.type \in MessageType
    /\ \E ok \in F :
         /\ audit' = IF ok
                     THEN audit \cup {AuditKey(consumer[c].body.type,
                                               consumer[c].body)}
                     ELSE audit
         /\ consumer' = [consumer EXCEPT ![c] =
                [Log(@, "handler", ok) EXCEPT !.pc = "confirm"]]
    /\ UNCHANGED <<today, amqpVars, workflowVars, storeVars, brokerVars, next_uuid, proc, history>>

\* process_message, lines 52-67: (an unknown kind is only logged) the
\* Delivery Confirmation is uploaded; the result is not looked at
Confirm(c, F) ==
    /\ \/ consumer[c].pc = "confirm"
       \/ /\ consumer[c].pc = "received"
          /\ Decode(consumer[c].body) = "message"
          /\ consumer[c].body.type \notin MessageType
    /\ \E ok \in F :
         /\ audit' = IF ok
                     THEN audit \cup {AuditKey("delivery", consumer[c].body)}
                     ELSE audit
         /\ consumer' = [consumer EXCEPT ![c] =
                [Log(@, "confirmation", ok) EXCEPT !.pc = "ack"]]
    /\ UNCHANGED <<today, amqpVars, workflowVars, storeVars, brokerVars, next_uuid, proc, history>>

\* basic_ack followed, still inside the try block, by a statement that raises
AckThenRaise(c, F) ==
    /\ consumer[c].pc = "ack"
    /\ \E ok \in F :
         consumer' = [consumer EXCEPT ![c] =
             [Log(@, "basic_ack", ok) EXCEPT !.pc = "nack_requeue"]]
    /\ UNCHANGED <<today, amqpVars, workflowVars, storeVars, brokerVars,
                   next_uuid, proc, history, audit>>

\* process_message, line 70: basic_ack; if it raises, line 76 catches it
Ack(c, F) ==
    /\ consumer[c].pc = "ack"
    /\ \E ok \in F :
         consumer' = [consumer EXCEPT ![c] =
             IF ok THEN [Log(@, "basic_ack", ok) EXCEPT
                            !.pc = "settled", !.outcome = "acked"]
             ELSE [Log(@, "basic_ack", ok) EXCEPT !.pc = "nack_requeue"]]
    /\ UNCHANGED <<today, amqpVars, workflowVars, storeVars, brokerVars, next_uuid, proc, history,
                   audit>>

\* process_message, lines 73-75: basic_nack(requeue=False); the broker
\* dead-letters the message to insurance.dlx with key failed.<c>
NackDiscard(c) ==
    /\ consumer[c].pc = "received"
    /\ Handles(Decode(consumer[c].body)) = "nack_discard"
    /\ Decode(consumer[c].body) # "message"
    /\ failed_queue' = DeadLetter(c, consumer[c].body)
    /\ consumer' = [consumer EXCEPT ![c] =
            [Log(@, "basic_nack", TRUE) EXCEPT
                !.pc = "settled", !.outcome = "nack_discard"]]
    /\ UNCHANGED <<today, amqpVars, workflowVars, storeVars, queue, next_uuid, proc, history, audit>>

\* basic_nack(requeue=True) on a broker that requeues at the tail
NackRequeueTail(c) ==
    /\ \/ consumer[c].pc = "nack_requeue"
       \/ /\ consumer[c].pc = "received"
          /\ Decode(consumer[c].body) # "message"
          /\ Handles(Decode(consumer[c].body)) = "nack_requeue"
    /\ queue' = [queue EXCEPT ![c] = Append(@, consumer[c].body)]
    /\ consumer' = [consumer EXCEPT ![c] =
            [Log(@, "basic_nack", TRUE) EXCEPT
                !.pc = "settled", !.outcome = "nack_requeue"]]
    /\ UNCHANGED <<today, amqpVars, workflowVars, storeVars, failed_queue, next_uuid, proc,
                   history, audit>>

\* process_message, lines 76-79: basic_nack(requeue=True); the broker puts
\* the message back at the head of client.<c>
NackRequeue(c) ==
    /\ \/ consumer[c].pc = "nack_requeue"
       \/ /\ consumer[c].pc = "received"
          /\ Decode(consumer[c].body) # "message"
          /\ Handles(Decode(consumer[c].body)) = "nack_requeue"
    /\ queue' = IF Declared(topology, Name("client.", c))
                THEN [queue EXCEPT ![c] = <<consumer[c].body>> \o @]
                ELSE queue
    /\ consumer' = [consumer EXCEPT ![c] =
            [Log(@, "basic_nack", TRUE) EXCEPT
                !.pc = "settled", !.outcome = "nack_requeue"]]
    /\ UNCHANGED <<today, amqpVars, workflowVars, storeVars, failed_queue, next_uuid, proc, history,
                   audit>>

\* process_message returns; the consumer is ready for the next delivery
Settle(c) ==
    /\ consumer[c].pc = "settled"
    /\ consumer' = [consumer EXCEPT ![c] = NoDelivery]
    /\ UNCHANGED <<today, amqpVars, workflowVars, storeVars, brokerVars, next_uuid, proc, history,
                   audit>>

\* the delivery the consumer of client.<c> has not settled yet
Unsettled(c) ==
    IF consumer[c].pc \in {"received", "confirm", "ack", "nack_requeue"}
    THEN <<consumer[c].body>> ELSE <<>>

\* the message at the head of client.<c> has been in the queue for longer
\* than x-message-ttl (a requeued message keeps its first expiry time): the
\* broker dead-letters it to insurance.dlx with routing key failed.<c>
\* instead of delivering it
ExpireRequeued(c) ==
    /\ queue[c] # <<>>
    /\ queue' = [queue EXCEPT ![c] = Append(Tail(@), Head(@))]
    /\ UNCHANGED <<today, amqpVars, workflowVars, storeVars, failed_queue, next_uuid, proc,
                   history, consumerVars>>

Expire(c) ==
    /\ queue[c] # <<>>
    /\ queue' = [queue EXCEPT ![c] = Tail(@)]
    /\ failed_queue' = DeadLetter(c, Head(queue[c]))
    /\ UNCHANGED <<today, amqpVars, workflowVars, storeVars, next_uuid, proc, history,
                   consumerVars>>

(* -------------------------- connect, reconnect -------------------------- *)
\* get_amqp_manager, called by lifespan at startup: AMQPManager(), connect()
GetAmqpManager ==
    /\ amqp.app = "starting" /\ amqp.pc = "idle"
    /\ amqp' = Begin("connect", "connection", "", NoLimit)
    /\ UNCHANGED <<topology, coreVars>>

\* reconnect: disconnect() closes the connection if it is open, then connect()
Reconnect ==
    /\ amqp.app = "running" /\ amqp.pc = "idle"
    /\ amqp' = [Begin("reconnect", "connection", "", NoLimit) EXCEPT
                   !.connection = IF @ = "open" THEN "closed" ELSE @,
                   !.channel = IF @ = "open" THEN "closed" ELSE @]
    /\ UNCHANGED <<topology, coreVars>>

\* connect, line 50: pika.BlockingConnection; when it raises, self.connection
\* keeps the value it had
BlockingConnection(F) ==
    /\ amqp.pc = "connection"
    /\ \E ok \in F :
         amqp' = IF ok
                 THEN [Log(amqp, "BlockingConnection", ok) EXCEPT
                          !.pc = "channel", !.connection = "open",
                          !.declared = {}]
                 ELSE [Log(amqp, "BlockingConnection", ok) EXCEPT
                          !.pc = "done", !.result = FALSE]
    /\ UNCHANGED <<topology, coreVars>>

\* connect, line 51: self.connection.channel()
OpenChannel(F) ==
    /\ amqp.pc = "channel"
    /\ \E ok \in F :
         amqp' = IF ok
                 THEN [Log(amqp, "channel", ok) EXCEPT
                          !.pc = "exchange", !.channel = "open", !.index = 1]
                 ELSE [Log(amqp, "channel", ok) EXCEPT
                          !.pc = "done", !.result = FALSE]
    /\ UNCHANGED <<topology, coreVars>>

\* setup_infrastructure, lines 72-90: the next exchange_declare; when it
\* raises, setup_infrastructure re-raises and connect returns False (line 57)
ExchangeDeclare(F) ==
    /\ amqp.pc = "exchange"
    /\ \E ok \in F :
         LET exchange == Exchanges[amqp.index]
             accepted == Accepted(ok, TRUE)
             next == IF amqp.index = Len(Exchanges) THEN "done" ELSE "exchange"
         IN  /\ amqp' = [AfterMethod("exchange_declare", ok, TRUE, next) EXCEPT
                            !.index = IF accepted THEN @ + 1 ELSE @,
                            !.declared = IF accepted THEN @ \cup {exchange}
                                         ELSE @]
             /\ topology' = IF accepted
                            THEN exchange_declare(topology, exchange)
                            ELSE topology
    /\ UNCHANGED coreVars

\* the operation returns to its caller
AmqpReturn ==
    /\ amqp.app = "running" /\ amqp.pc = "done"
    /\ amqp' = [amqp EXCEPT !.op = "idle", !.pc = "idle",
                   !.last = [op |-> amqp.op, client_id |-> amqp.client_id,
                             message_limit |-> amqp.message_limit,
                             result |-> amqp.result]]
    /\ UNCHANGED <<topology, coreVars>>

\* lifespan, lines 38-47: the result of connect() was dropped by
\* get_amqp_manager; startup goes on if is_connected(), else it raises
Lifespan ==
    /\ amqp.app = "starting" /\ amqp.pc = "done"
    /\ amqp' = [amqp EXCEPT !.op = "idle", !.pc = "idle",
                   !.app = IF is_connected THEN "running" ELSE "aborted",
                   !.last = [op |-> amqp.op, client_id |-> amqp.client_id,
                             message_limit |-> amqp.message_limit,
                             result |-> amqp.result]]
    /\ UNCHANGED <<topology, coreVars>>

\* the connection to the broker breaks
ConnectionLost ==
    /\ amqp.app = "running" /\ amqp.pc = "idle"
    /\ amqp.connection = "open"
    /\ amqp' = [amqp EXCEPT !.connection = "closed",
                            !.channel = IF @ = "open" THEN "closed" ELSE @]
    /\ UNCHANGED <<topology, coreVars>>

(* ----------------- create_client_queue, delete_client_queue ------------- *)
\* a caller enters an operation that needs the channel (lines 101-102,
\* 151-152): without a channel it returns False at once
Enter(op, pc, c, message_limit) ==
    /\ amqp.app = "running" /\ amqp.pc = "idle"
    /\ amqp' = IF amqp.channel = "none"
               THEN [Begin(op, "done", c, message_limit) EXCEPT
                        !.result = FALSE]
               ELSE Begin(op, pc, c, message_limit)
    /\ UNCHANGED <<topology, coreVars>>

CreateClientQueue(c, message_limit) ==
    Enter("create_client_queue", "declare_client", c, message_limit)

\* create_client_queue, lines 116-120: queue_declare of client.<id>
DeclareClientQueue(F) ==
    /\ amqp.pc = "declare_client"
    /\ \E ok \in F :
         LET name == Name("client.", amqp.client_id)
             arguments == ClientQueueArguments(amqp.client_id,
                                               amqp.message_limit)
             allowed == queue_declare_ok(topology, name, arguments)
         IN  /\ amqp' = AfterMethod("queue_declare", ok, allowed, "bind_client")
             /\ topology' = IF Accepted(ok, allowed)
                            THEN queue_declare(topology, name, arguments)
                            ELSE topology
    /\ UNCHANGED coreVars

\* create_client_queue binding every client queue with one routing key
BindClientQueueShared(F) ==
    /\ amqp.pc = "bind_client"
    /\ \E ok \in F :
         LET name == Name("client.", amqp.client_id)
             allowed == queue_bind_ok(topology, "insurance.direct", name)
         IN  /\ amqp' = AfterMethod("queue_bind", ok, allowed, "declare_failed")
             /\ topology' = IF Accepted(ok, allowed)
                            THEN queue_bind(topology, "insurance.direct", name,
                                            Name("", "A"))
                            ELSE topology
    /\ UNCHANGED coreVars

\* create_client_queue, lines 123-127: queue_bind to insurance.direct
BindClientQueue(F) ==
    /\ amqp.pc = "bind_client"
    /\ \E ok \in F :
         LET name == Name("client.", amqp.client_id)
             allowed == queue_bind_ok(topology, "insurance.direct", name)
         IN  /\ amqp' = AfterMethod("queue_bind", ok, allowed, "declare_failed")
             /\ topology' = IF Accepted(ok, allowed)
                            THEN queue_bind(topology, "insurance.direct", name,
                                            Name("", amqp.client_id))
                            ELSE topology
    /\ UNCHANGED coreVars

\* create_client_queue, lines 130-133: queue_declare of failed.<id>
DeclareFailedQueue(F) ==
    /\ amqp.pc = "declare_failed"
    /\ \E ok \in F :
         LET name == Name("failed.", amqp.client_id)
             allowed == queue_declare_ok(topology, name, NoArguments)
         IN  /\ amqp' = AfterMethod("queue_declare", ok, allowed, "bind_failed")
             /\ topology' = IF Accepted(ok, allowed)
                            THEN queue_declare(topology, name, NoArguments)
                            ELSE topology
    /\ UNCHANGED coreVars

\* create_client_queue, lines 135-142: queue_bind to insurance.dlx, return True
BindFailedQueue(F) ==
    /\ amqp.pc = "bind_failed"
    /\ \E ok \in F :
         LET name == Name("failed.", amqp.client_id)
             allowed == queue_bind_ok(topology, "insurance.dlx", name)
         IN  /\ amqp' = AfterMethod("queue_bind", ok, allowed, "done")
             /\ topology' = IF Accepted(ok, allowed)
                            THEN queue_bind(topology, "insurance.dlx", name, name)
                            ELSE topology
    /\ UNCHANGED coreVars

DeleteClientQueue(c) ==
    Enter("delete_client_queue", "delete_client", c, NoLimit)

\* queue_delete of client.<id> on a broker that answers NOT_FOUND for a
\* queue that does not exist
DeleteMainQueueNotFound(F) ==
    /\ amqp.pc = "delete_client"
    /\ \E ok \in F :
         LET name == Name("client.", amqp.client_id)
             allowed == Declared(topology, name)
         IN  /\ amqp' = AfterMethod("queue_delete", ok, allowed, "delete_failed")
             /\ topology' = IF Accepted(ok, allowed)
                            THEN queue_delete(topology, name)
                            ELSE topology
             /\ queue' = IF Accepted(ok, allowed)
                         THEN Purge(queue, amqp.client_id) ELSE queue
    /\ UNCHANGED <<today, storeVars, failed_queue, next_uuid, proc, history,
                   consumerVars, workflowVars>>

\* delete_client_queue, line 155: queue_delete of client.<id>
DeleteMainQueue(F) ==
    /\ amqp.pc = "delete_client"
    /\ \E ok \in F :
         /\ amqp' = AfterMethod("queue_delete", ok, TRUE, "delete_failed")
         /\ topology' = IF Accepted(ok, TRUE)
                        THEN queue_delete(topology,
                                          Name("client.", amqp.client_id))
                        ELSE topology
         /\ queue' = IF Accepted(ok, TRUE)
                     THEN Purge(queue, amqp.client_id) ELSE queue
    /\ UNCHANGED <<today, storeVars, failed_queue, next_uuid, proc, history,
                   consumerVars, workflowVars>>

\* delete_client_queue, lines 158-161: queue_delete of failed.<id>, return True
DeleteFailedQueue(F) ==
    /\ amqp.pc = "delete_failed"
    /\ \E ok \in F :
         /\ amqp' = AfterMethod("queue_delete", ok, TRUE, "done")
         /\ topology' = IF Accepted(ok, TRUE)
                        THEN queue_delete(topology,
                                          Name("failed.", amqp.client_id))
                        ELSE topology
         /\ failed_queue' = IF Accepted(ok, TRUE)
                            THEN Purge(failed_queue, amqp.client_id)
                            ELSE failed_queue
    /\ UNCHANGED <<today, storeVars, queue, next_uuid, proc, history,
                   consumerVars, workflowVars>>

(* --------------------------- send_notification ------------------------- *)
\* publish_message, line 168: priority: int = 0
default_priority == 0

\* publish_message, lines 175-181: the properties of the broker message
BasicProperties(message, priority) ==
    [delivery_mode |-> 2, priority |-> priority, message_id |-> message.id]

\* publish_client_message, lines 198-200: publish_message is called without
\* a priority
ClientMessageProperties(message) == BasicProperties(message, default_priority)

\* the basic_publish a recording stub would log, with its properties
LogPublish(r, name, ok) ==
    [r EXCEPT !.calls = Append(@, [name |-> name, ok |-> ok,
                                   properties |->
                                       ClientMessageProperties(r.message)])]

\* a caller enters send_notification(c, ..., priority): lines 231-240, the
\* envelope with a new id
SendNotification(p, c, priority) ==
    /\ proc[p].op = "idle"
    /\ next_uuid + Reserved < MaxMsgs
    /\ next_uuid' = next_uuid + 1
    /\ proc' = [proc EXCEPT ![p] =
            [Idle EXCEPT !.op = "notify", !.pc = "notify_archive",
                         !.caller = "notify", !.client_id = c,
                         !.message = [found |-> TRUE, id |-> next_uuid + 1,
                                      client_id |-> c,
                                      type |-> "system_alert",
                                      retry_count |-> NoRetryCount,
                                      priority |-> priority]]]
    /\ UNCHANGED <<today, amqpVars, workflowVars, storeVars, brokerVars,
                   history, consumerVars>>

\* send_notification, lines 243-244: upload_json; the result is not looked at
NotifyArchive(p, F) ==
    /\ proc[p].pc = "notify_archive"
    /\ \E ok \in F :
         /\ archive' = upload_message(proc[p].message, ok)
         /\ proc' = [proc EXCEPT ![p] =
                [Log(proc[p], "upload_json", ok) EXCEPT
                    !.pc = "notify_publish"]]
    /\ UNCHANGED <<today, amqpVars, workflowVars, client_metadata, brokerVars,
                   next_uuid, history, consumerVars>>

\* send_notification, lines 247-257: publish_client_message, return
NotifyPublish(p, F) ==
    /\ proc[p].pc = "notify_publish"
    /\ \E ok \in F :
         LET r == LogPublish(proc[p], "publish_client_message", ok)
         IN  /\ queue' = IF ok THEN Enqueue(proc[p].client_id,
                                           Body(proc[p].message))
                          ELSE queue
             /\ proc' = [proc EXCEPT ![p] =
                    SendReturn(r, IF publish_message(ok)
                                  THEN "sent" ELSE "failed")]
    /\ UNCHANGED <<today, amqpVars, workflowVars, storeVars, failed_queue,
                   next_uuid, history, consumerVars>>

(* --------------------------- deactivate_client ------------------------- *)
\* a caller enters deactivate_client(c)
DeactivateClient(p, c) ==
    /\ proc[p].op = "idle"
    /\ next_uuid + Reserved < MaxMsgs
    /\ proc' = [proc EXCEPT ![p] =
            [Idle EXCEPT !.op = "deactivate", !.pc = "deactivate_read",
                         !.caller = "deactivate", !.client_id = c]]
    /\ UNCHANGED <<today, amqpVars, workflowVars, storeVars, brokerVars,
                   next_uuid, history, consumerVars>>

\* deactivate_client, lines 185-188: read the client's metadata
DeactivateRead(p, F) ==
    /\ proc[p].pc = "deactivate_read"
    /\ \E ok \in F :
         LET m == get_client_metadata(proc[p].client_id, ok)
             r == Log(proc[p], "get_client_metadata", ok)
         IN  proc' = [proc EXCEPT ![p] =
                 IF m.found
                 THEN [r EXCEPT !.pc = "deactivate_write", !.metadata = m]
                 ELSE SendReturn(r, "failed")]
    /\ UNCHANGED <<today, amqpVars, workflowVars, storeVars, brokerVars,
                   next_uuid, history, consumerVars>>

\* deactivate_client, lines 190-191
Deactivated(m) == [m EXCEPT !.is_active = FALSE]

\* deactivate_client, lines 193-205: the whole record that was read is
\* written back; then the envelope of the notification gets a new id
DeactivateWrite(p, F) ==
    /\ proc[p].pc = "deactivate_write"
    /\ \E ok \in F :
         LET c == proc[p].client_id
             n == Deactivated(proc[p].metadata)
             r == Log([proc[p] EXCEPT !.metadata = n],
                      "update_client_metadata", ok)
         IN  /\ client_metadata' = update_client_metadata(c, n, ok)
             /\ proc' = [proc EXCEPT ![p] =
                    IF ok
                    THEN [r EXCEPT
                             !.pc = "deactivate_publish",
                             !.message = [found |-> TRUE,
                                          id |-> next_uuid + 1,
                                          client_id |-> c,
                                          type |-> "system_alert",
                                          retry_count |-> NoRetryCount]]
                    ELSE SendReturn(r, "failed")]
             /\ next_uuid' = IF ok THEN next_uuid + 1 ELSE next_uuid
    /\ UNCHANGED <<today, amqpVars, workflowVars, archive, brokerVars,
                   history, consumerVars>>

\* deactivate_client, line 207: publish_client_message; the result is not
\* looked at
DeactivatePublish(p, F) ==
    /\ proc[p].pc = "deactivate_publish"
    /\ \E ok \in F :
         /\ queue' = IF ok THEN Enqueue(proc[p].client_id,
                                       Body(proc[p].message))
                      ELSE queue
         /\ proc' = [proc EXCEPT ![p] =
                [LogPublish(proc[p], "publish_client_message", ok) EXCEPT
                    !.pc = "deactivate_archive"]]
    /\ UNCHANGED <<today, amqpVars, workflowVars, storeVars, failed_queue,
                   next_uuid, history, consumerVars>>

\* deactivate_client, lines 208-211: archive_message (the result is not
\* looked at), return True
DeactivateArchive(p, F) ==
    /\ proc[p].pc = "deactivate_archive"
    /\ \E ok \in F :
         /\ archive' = upload_message(proc[p].message, ok)
         /\ proc' = [proc EXCEPT ![p] =
                SendReturn(Log(proc[p], "upload_json", ok), "deactivated")]
    /\ UNCHANGED <<today, amqpVars, workflowVars, client_metadata, brokerVars,
                   next_uuid, history, consumerVars>>

(* ------------------------ setup_workflow_queues ------------------------ *)
\* setup_workflow_queues is called (it does not test self.channel: without a
\* channel the first queue_declare raises and it returns False)
SetupWorkflowQueues ==
    /\ amqp.app = "running" /\ amqp.pc = "idle"
    /\ amqp' = [Begin("setup_workflow_queues", "declare_workflow", "",
                      NoLimit) EXCEPT !.index = 1]
    /\ UNCHANGED <<topology, coreVars>>

\* setup_workflow_queues, line 282: queue_declare(queue, durable=True)
DeclareWorkflowQueue(F) ==
    /\ amqp.pc = "declare_workflow"
    /\ \E ok \in F :
         LET name == workflow_queues[amqp.index]
             allowed == queue_declare_ok(topology, name, NoArguments)
         IN  /\ amqp' = AfterMethod("queue_declare", ok, allowed,
                                    "bind_workflow")
             /\ topology' = IF Accepted(ok, allowed)
                            THEN queue_declare(topology, name, NoArguments)
                            ELSE topology
    /\ UNCHANGED coreVars

\* setup_workflow_queues, line 285: routing_key = queue.replace('.', '.'),
\* the name of the queue itself
BindingKey(name) == name

\* setup_workflow_queues, lines 286-293: queue_bind to insurance.workflow,
\* then the next queue or return True
BindWorkflowQueue(F) ==
    /\ amqp.pc = "bind_workflow"
    /\ \E ok \in F :
         LET name == workflow_queues[amqp.index]
             allowed == queue_bind_ok(topology, "insurance.workflow", name)
             accepted == Accepted(ok, allowed)
             next == IF amqp.index = Len(workflow_queues)
                     THEN "done" ELSE "declare_workflow"
         IN  /\ amqp' = [AfterMethod("queue_bind", ok, allowed, next) EXCEPT
                            !.index = IF accepted THEN @ + 1 ELSE @]
             /\ topology' = IF accepted
                            THEN queue_bind(topology, "insurance.workflow",
                                            name, BindingKey(name))
                            ELSE topology
    /\ UNCHANGED coreVars

(* ------------------------- send_workflow_message ----------------------- *)
\* the domains process_workflow_message has a handler for (lines 244-249)
Domains == {"enrollment.", "claims.", "payments."}

\* the broker matches the binding key of a queue bound to a topic exchange
\* against a routing key word by word; the word * matches any one word
Matches(binding_key, routing_key) ==
    /\ binding_key.prefix = routing_key.prefix
    /\ binding_key.id \in {routing_key.id, "*"}

\* the queues the exchange hands a message with `routing_key` to
Route(t, exchange, routing_key) ==
    {b.queue : b \in {x \in t.bindings :
                        /\ x.exchange = exchange
                        /\ Matches(x.routing_key, routing_key)}}

\* json.dumps(message) of a workflow envelope as a consumer will see it
WorkflowBody(m) ==
    [kind |-> "object", id |-> m.id, client_id |-> "", type |-> m.type,
     retry_count |-> NoRetryCount]

\* the workflow queues after basic_publish(exchange='insurance.workflow',
\* routing_key, body): every queue the exchange routes to gets the message;
\* a message no binding matches is discarded (the publish is not mandatory)
WorkflowEnqueue(routing_key, body) ==
    [q \in WorkflowQueues |->
        IF q \in Route(topology, "insurance.workflow", routing_key)
        THEN Append(workflow_queue[q],
                    [routing_key |-> routing_key, body |-> body])
        ELSE workflow_queue[q]]

\* a caller enters send_workflow_message(routing_key, ...): lines 84-91, the
\* envelope with a new id
SendWorkflowMessage(p, routing_key) ==
    /\ proc[p].op = "idle"
    /\ next_uuid + Reserved < MaxMsgs
    /\ next_uuid' = next_uuid + 1
    /\ proc' = [proc EXCEPT ![p] =
            [Idle EXCEPT !.op = "workflow", !.pc = "workflow_archive",
                         !.caller = "workflow",
                         !.message = [found |-> TRUE, id |-> next_uuid + 1,
                                      type |-> "workflow",
                                      routing_key |-> routing_key]]]
    /\ UNCHANGED <<today, amqpVars, workflowVars, storeVars, brokerVars,
                   history, consumerVars>>

\* send_workflow_message, lines 94-97: archive under /workflow/messages/
WorkflowArchive(p, F) ==
    /\ proc[p].pc = "workflow_archive"
    /\ \E ok \in F :
         LET r == Log(proc[p], "upload_json", ok)
         IN  /\ workflow_archive' = IF ok
                                    THEN workflow_archive \cup
                                             {proc[p].message.id}
                                    ELSE workflow_archive
             /\ proc' = [proc EXCEPT ![p] =
                    IF ok THEN [r EXCEPT !.pc = "workflow_publish"]
                    ELSE SendReturn(r, "failed")]
    /\ UNCHANGED <<today, amqpVars, storeVars, brokerVars, next_uuid,
                   history, consumerVars, workflow_queue, workflow_consumer>>

\* send_workflow_message that counts the message against a tenant's quota
WorkflowPublishMetered(p, F) ==
    /\ proc[p].pc = "workflow_publish"
    /\ \E ok \in F :
         LET r == Log(proc[p], "publish_workflow_message", ok)
             c == "A"
         IN  /\ workflow_queue' =
                    IF ok THEN WorkflowEnqueue(proc[p].message.routing_key,
                                               WorkflowBody(proc[p].message))
                    ELSE workflow_queue
             /\ client_metadata' =
                    IF ok /\ c \in Clients
                    THEN update_client_metadata(
                             c, IncrementCounter(client_metadata[c]), TRUE)
                    ELSE client_metadata
             /\ proc' = [proc EXCEPT ![p] =
                    SendReturn(r, IF publish_message(ok)
                                  THEN "sent" ELSE "failed")]
    /\ UNCHANGED <<today, amqpVars, archive, brokerVars, next_uuid,
                   history, consumerVars, workflow_archive, workflow_consumer>>

\* send_workflow_message, lines 100-109: publish_workflow_message, return
WorkflowPublish(p, F) ==
    /\ proc[p].pc = "workflow_publish"
    /\ \E ok \in F :
         LET r == Log(proc[p], "publish_workflow_message", ok)
         IN  /\ workflow_queue' =
                    IF ok THEN WorkflowEnqueue(proc[p].message.routing_key,
                                               WorkflowBody(proc[p].message))
                    ELSE workflow_queue
             /\ proc' = [proc EXCEPT ![p] =
                    SendReturn(r, IF publish_message(ok)
                                  THEN "sent" ELSE "failed")]
    /\ UNCHANGED <<today, amqpVars, storeVars, brokerVars, next_uuid,
                   history, consumerVars, workflow_archive, workflow_consumer>>

(* ----------------------- process_workflow_message ---------------------- *)
\* bodies other producers publish to insurance.workflow
WorkflowBodies ==
    {Malformed(k) : k \in Undecodable} \cup
    {WorkflowBody([id |-> i, type |-> "workflow"]) : i \in 1..MaxForeign}

\* the except clause of lines 268-270 is the only one: every exception of
\* process_workflow_message lands in it
WorkflowHandles(exception) == "nack_requeue"

\* some producer publishes `body` to insurance.workflow
WorkflowExternalPublish(routing_key, body) ==
    /\ \A q \in WorkflowQueues : Len(workflow_queue[q]) < MaxWorkflow
    /\ workflow_queue' = WorkflowEnqueue(routing_key, body)
    /\ UNCHANGED <<today, amqpVars, storeVars, brokerVars, next_uuid, proc,
                   history, consumerVars, workflow_archive, workflow_consumer>>

\* the broker hands the head of workflow queue q to its consumer:
\* process_workflow_message is called
WorkflowDeliver(q) ==
    /\ workflow_consumer[q].pc = "idle"
    /\ workflow_queue[q] # <<>>
    /\ workflow_consumer' = [workflow_consumer EXCEPT ![q] =
            [NoWorkflowDelivery EXCEPT
                !.pc = "received",
                !.routing_key = Head(workflow_queue[q]).routing_key,
                !.body = Head(workflow_queue[q]).body]]
    /\ workflow_queue' = [workflow_queue EXCEPT ![q] = Tail(@)]
    /\ UNCHANGED <<today, amqpVars, storeVars, brokerVars, next_uuid, proc,
                   history, consumerVars, workflow_archive>>

\* process_workflow_message, lines 244-249: the handler of the routing key's
\* domain uploads its audit log; each handler catches every exception
WorkflowHandler(q, F) ==
    /\ workflow_consumer[q].pc = "received"
    /\ Decode(workflow_consumer[q].body) = "message"
    /\ workflow_consumer[q].routing_key.prefix \in Domains
    /\ \E ok \in F :
         workflow_consumer' = [workflow_consumer EXCEPT ![q] =
             [Log(@, "handler", ok) EXCEPT !.pc = "processed"]]
    /\ UNCHANGED <<today, amqpVars, storeVars, brokerVars, next_uuid, proc,
                   history, consumerVars, workflow_archive, workflow_queue>>

\* process_workflow_message, lines 250-262: (an unknown routing key is only
\* logged) the record under /workflow/processed/ is uploaded; the result is
\* not looked at
WorkflowProcessed(q, F) ==
    /\ \/ workflow_consumer[q].pc = "processed"
       \/ /\ workflow_consumer[q].pc = "received"
          /\ Decode(workflow_consumer[q].body) = "message"
          /\ workflow_consumer[q].routing_key.prefix \notin Domains
    /\ \E ok \in F :
         workflow_consumer' = [workflow_consumer EXCEPT ![q] =
             [Log(@, "upload_json", ok) EXCEPT !.pc = "ack"]]
    /\ UNCHANGED <<today, amqpVars, storeVars, brokerVars, next_uuid, proc,
                   history, consumerVars, workflow_archive, workflow_queue>>

\* process_workflow_message, line 265: basic_ack; if it raises, line 268
\* catches it
WorkflowAck(q, F) ==
    /\ workflow_consumer[q].pc = "ack"
    /\ \E ok \in F :
         workflow_consumer' = [workflow_consumer EXCEPT ![q] =
             IF ok THEN [Log(@, "basic_ack", ok) EXCEPT
                            !.pc = "settled", !.outcome = "acked"]
             ELSE [Log(@, "basic_ack", ok) EXCEPT !.pc = "nack_requeue"]]
    /\ UNCHANGED <<today, amqpVars, storeVars, brokerVars, next_uuid, proc,
                   history, consumerVars, workflow_archive, workflow_queue>>

\* process_workflow_message, lines 268-270: basic_nack(requeue=True); the
\* broker puts the message back at the head of the queue
WorkflowNackRequeue(q) ==
    /\ \/ workflow_consumer[q].pc = "nack_requeue"
       \/ /\ workflow_consumer[q].pc = "received"
          /\ Decode(workflow_consumer[q].body) # "message"
          /\ WorkflowHandles(Decode(workflow_consumer[q].body))
                = "nack_requeue"
    /\ workflow_queue' = [workflow_queue EXCEPT ![q] =
            <<[routing_key |-> workflow_consumer[q].routing_key,
               body |-> workflow_consumer[q].body]>> \o @]
    /\ workflow_consumer' = [workflow_consumer EXCEPT ![q] =
            [Log(@, "basic_nack", TRUE) EXCEPT
                !.pc = "settled", !.outcome = "nack_requeue"]]
    /\ UNCHANGED <<today, amqpVars, storeVars, brokerVars, next_uuid, proc,
                   history, consumerVars, workflow_archive>>

\* process_workflow_message returns
WorkflowSettle(q) ==
    /\ workflow_consumer[q].pc = "settled"
    /\ workflow_consumer' = [workflow_consumer EXCEPT ![q] =
            NoWorkflowDelivery]
    /\ UNCHANGED <<today, amqpVars, storeVars, brokerVars, next_uuid, proc,
                   history, consumerVars, workflow_archive, workflow_queue>>

(* --------------------------- specifications ---------------------------- *)
\* send_client_message, called by the callers P for the clients C, with
\* collaborator results drawn from F
Send(P, C, F) ==
    \/ \E p \in P, c \in C : SendClientMessage(p, c)
    \/ \E p \in P : CheckRead(p, F)
    \/ \E p \in P : CheckReset(p, F)
    \/ \E p \in P : Archive(p, F)
    \/ \E p \in P : Publish(p, F)
    \/ \E p \in P : IncrRead(p, F)
    \/ \E p \in P : IncrWrite(p, F)

Resend(P, C, F) ==
    \/ \E p \in P, id \in 1..MaxMsgs, c \in C : ResendFailedMessage(p, id, c)
    \/ \E p \in P : ResendRead(p, F)
    \/ \E p \in P : ResendArchive(p, F)
    \/ \E p \in P : ResendPublish(p, F)

Bulk(P, C) ==
    \/ \E p \in P, messages \in Batches(C) : SendBulkMessages(p, messages)
    \/ \E p \in P : BulkItem(p)
    \/ \E p \in P : BulkEnd(p)

Consume(C, F) ==
    \/ \E c \in C : \E body \in ExternalBodies(c) : ExternalPublish(c, body)
    \/ \E c \in C : Deliver(c)
    \/ \E c \in C : Handler(c, F)
    \/ \E c \in C : Confirm(c, F)
    \/ \E c \in C : Ack(c, F)
    \/ \E c \in C : NackDiscard(c)
    \/ \E c \in C : NackRequeue(c)
    \/ \E c \in C : Settle(c)

\* Spec: concurrent callers of send_client_message for one client, every
\* collaborator call may fail
Next ==
    \/ Send(Procs, {"A"}, BOOLEAN)
    \/ \E p \in Procs : Return(p)
    \/ Midnight

Spec == Init /\ [][Next]_vars

\* SpecRace: concurrent callers, no collaborator call fails
NextRace ==
    \/ Send(Procs, {"A"}, {TRUE})
    \/ \E p \in Procs : Return(p)
    \/ Midnight

SpecRace == Init /\ [][NextRace]_vars

\* SpecOne: one caller at a time (sends and resends), every collaborator
\* call may fail
NextOne ==
    \/ Send({1}, {"A", Unregistered}, BOOLEAN)
    \/ Resend({1}, {"A", "B"}, BOOLEAN)
    \/ Return(1)
    \/ Midnight

SpecOne == Init /\ [][NextOne]_vars

\* SpecSeq: one sequential caller that records each outcome, no collaborator
\* call fails
SequentialCall(c) ==
    /\ Len(history[c]) < daily_message_limit + 2
    /\ SendClientMessage(1, c)

SequentialReturn ==
    /\ proc[1].pc = "done"
    /\ proc' = [proc EXCEPT ![1] = Idle]
    /\ history' = [history EXCEPT ![proc[1].client_id] =
                       Append(@, proc[1].result)]
    /\ UNCHANGED <<today, amqpVars, workflowVars, storeVars, brokerVars, next_uuid, consumerVars>>

\* the day changes between two calls
SequentialMidnight ==
    /\ proc[1].op = "idle"
    /\ Midnight

NextSeq ==
    \/ \E c \in {"A", "B"} : SequentialCall(c)
    \/ CheckRead(1, {TRUE})
    \/ CheckReset(1, {TRUE})
    \/ Archive(1, {TRUE})
    \/ Publish(1, {TRUE})
    \/ IncrRead(1, {TRUE})
    \/ IncrWrite(1, {TRUE})
    \/ SequentialReturn
    \/ SequentialMidnight

SpecSeq == Init /\ [][NextSeq]_vars

\* SpecBulk: one caller of send_bulk_messages; each client starts the day
\* with a fresh counter or with its quota used up
InitBulk ==
    /\ today = 0
    /\ \E n \in {0, daily_message_limit} :
         client_metadata = [c \in ClientIds |->
            IF c = "A"
            THEN [NewClientMetadata(0) EXCEPT !.message_count_today = n]
            ELSE IF c \in Clients THEN NewClientMetadata(0) ELSE NotFound]
    /\ archive = [i \in 1..MaxMsgs |-> NotFound]
    /\ queue = [c \in Clients |-> <<>>]
    /\ failed_queue = [c \in Clients |-> <<>>]
    /\ next_uuid = 0
    /\ proc = [p \in Procs |-> Idle]
    /\ history = [c \in ClientIds |-> <<>>]
    /\ consumer = [c \in Clients |-> NoDelivery]
    /\ audit = {}
    /\ amqp = Connected
    /\ topology = Registered
    /\ workflow_archive = {}
    /\ workflow_queue = [q \in WorkflowQueues |-> <<>>]
    /\ workflow_consumer = [q \in WorkflowQueues |-> NoWorkflowDelivery]

NextBulk ==
    \/ Bulk({1}, {"A", "B"})
    \/ CheckRead(1, BOOLEAN)
    \/ CheckReset(1, BOOLEAN)
    \/ Archive(1, BOOLEAN)
    \/ Publish(1, BOOLEAN)
    \/ IncrRead(1, BOOLEAN)
    \/ IncrWrite(1, BOOLEAN)
    \/ Return(1)

SpecBulk == InitBulk /\ [][NextBulk]_vars

\* SpecConsume: the consumer of one client queue and the producers that
\* fill the queue
NextConsume == Consume({"A"}, BOOLEAN)

SpecConsume == Init /\ [][NextConsume]_vars

\* SpecTopology: the manager from application startup on: connect,
\* reconnect, provisioning and deprovisioning of client queues on a broker
\* that starts empty; every broker call may fail
InitTopology ==
    /\ today = 0
    /\ client_metadata = [c \in ClientIds |->
            IF c \in Clients THEN NewClientMetadata(0) ELSE NotFound]
    /\ archive = [i \in 1..MaxMsgs |-> NotFound]
    /\ queue = [c \in Clients |-> <<>>]
    /\ failed_queue = [c \in Clients |-> <<>>]
    /\ next_uuid = 0
    /\ proc = [p \in Procs |-> Idle]
    /\ history = [c \in ClientIds |-> <<>>]
    /\ consumer = [c \in Clients |-> NoDelivery]
    /\ audit = {}
    /\ amqp = Disconnected
    /\ topology = NoTopology
    /\ workflow_archive = {}
    /\ workflow_queue = [q \in WorkflowQueues |-> <<>>]
    /\ workflow_consumer = [q \in WorkflowQueues |-> NoWorkflowDelivery]

NextTopology ==
    \/ GetAmqpManager
    \/ Reconnect
    \/ BlockingConnection(BOOLEAN)
    \/ OpenChannel(BOOLEAN)
    \/ ExchangeDeclare(BOOLEAN)
    \/ Lifespan
    \/ AmqpReturn
    \/ ConnectionLost
    \/ \E message_limit \in MessageLimits : CreateClientQueue("A", message_limit)
    \/ DeclareClientQueue(BOOLEAN)
    \/ BindClientQueue(BOOLEAN)
    \/ DeclareFailedQueue(BOOLEAN)
    \/ BindFailedQueue(BOOLEAN)
    \/ DeleteClientQueue("A")
    \/ DeleteMainQueue(BOOLEAN)
    \/ DeleteFailedQueue(BOOLEAN)

SpecTopology == InitTopology /\ [][NextTopology]_vars

\* SpecOrder: one sequential sender (no store or broker call of its fails)
\* and the consumer of its client's queue; the ids uuid4() hands out are
\* numbered in the order of the calls, so a smaller id was published earlier
NextOrder ==
    \/ Send({1}, {"A"}, {TRUE})
    \/ Return(1)
    \/ Midnight
    \/ Deliver("A")
    \/ Handler("A", BOOLEAN)
    \/ Confirm("A", BOOLEAN)
    \/ Ack("A", BOOLEAN)
    \/ NackRequeue("A")
    \/ Settle("A")

SpecOrder == Init /\ [][NextOrder]_vars

\* SpecAdmin: one caller that sends and resets the limits of a client; the
\* store calls of a reset may fail
NextAdmin ==
    \/ Send({1}, {"A"}, {TRUE})
    \/ \E c \in {"A", Unregistered} : ResetDailyLimits(1, c)
    \/ ResetRead(1, BOOLEAN)
    \/ ResetWrite(1, BOOLEAN)
    \/ Return(1)
    \/ Midnight

SpecAdmin == Init /\ [][NextAdmin]_vars

\* SpecRetry: the consumer of one client queue, a producer that keeps the
\* broker filled with at most MaxDead + 1 messages, and the expiry of queued
\* messages.  The consumer's loop takes every step it can take, and time
\* passes: a message that keeps coming back to the queue is there, sooner or
\* later, after its TTL has run out.
RetryBodies(c) == {b \in ExternalBodies(c) : b.id <= 1}

RetryPublish(c, body) ==
    /\ Len(queue[c]) + Len(failed_queue[c]) + Len(Unsettled(c)) <= MaxDead
    /\ queue' = Enqueue(c, body)
    /\ UNCHANGED <<today, amqpVars, workflowVars, storeVars, failed_queue, next_uuid, proc,
                   history, consumerVars>>

NextRetry ==
    \/ \E body \in RetryBodies("A") : RetryPublish("A", body)
    \/ Deliver("A")
    \/ Handler("A", BOOLEAN)
    \/ Confirm("A", BOOLEAN)
    \/ Ack("A", BOOLEAN)
    \/ NackDiscard("A")
    \/ NackRequeue("A")
    \/ Settle("A")
    \/ Expire("A")

FairRetry ==
    /\ WF_vars(Deliver("A"))
    /\ WF_vars(Handler("A", BOOLEAN))
    /\ WF_vars(Confirm("A", BOOLEAN))
    /\ WF_vars(Ack("A", BOOLEAN))
    /\ WF_vars(NackDiscard("A"))
    /\ WF_vars(NackRequeue("A"))
    /\ WF_vars(Settle("A"))
    /\ SF_vars(Expire("A"))

SpecRetry == Init /\ [][NextRetry]_vars /\ FairRetry

\* SpecWorkflow: setup_workflow_queues and, at any point of it, a caller of
\* send_workflow_message; every call of the Metadata Store and every
\* basic_publish may fail
WorkflowKeys ==
    {Name("enrollment.", "requests"), Name("enrollment.", "submitted"),
     Name("claims.", "submitted")}

SetupWorkflow(F) ==
    \/ SetupWorkflowQueues
    \/ DeclareWorkflowQueue(F)
    \/ BindWorkflowQueue(F)
    \/ AmqpReturn

SendWorkflow(P, K, F) ==
    \/ \E p \in P, k \in K : SendWorkflowMessage(p, k)
    \/ \E p \in P : WorkflowArchive(p, F)
    \/ \E p \in P : WorkflowPublish(p, F)

ConsumeWorkflow(Q, F) ==
    \/ \E q \in Q : WorkflowDeliver(q)
    \/ \E q \in Q : WorkflowHandler(q, F)
    \/ \E q \in Q : WorkflowProcessed(q, F)
    \/ \E q \in Q : WorkflowAck(q, F)
    \/ \E q \in Q : WorkflowNackRequeue(q)
    \/ \E q \in Q : WorkflowSettle(q)

NextWorkflow ==
    \/ SetupWorkflow({TRUE})
    \/ SendWorkflow({1}, WorkflowKeys, BOOLEAN)
    \/ Return(1)

SpecWorkflow == Init /\ [][NextWorkflow]_vars

\* the broker after startup, register_client of every client and a
\* setup_workflow_queues that returned True
WorkflowTopology ==
    [Registered EXCEPT
        !.queues = @ \cup {Queue(q, NoArguments) : q \in WorkflowQueues},
        !.bindings = @ \cup {Binding("insurance.workflow", q, BindingKey(q)) :
                                q \in WorkflowQueues}]

InitWorkflow ==
    /\ today = 0
    /\ client_metadata = [c \in ClientIds |->
            IF c \in Clients THEN NewClientMetadata(0) ELSE NotFound]
    /\ archive = [i \in 1..MaxMsgs |-> NotFound]
    /\ queue = [c \in Clients |-> <<>>]
    /\ failed_queue = [c \in Clients |-> <<>>]
    /\ next_uuid = 0
    /\ proc = [p \in Procs |-> Idle]
    /\ history = [c \in ClientIds |-> <<>>]
    /\ consumer = [c \in Clients |-> NoDelivery]
    /\ audit = {}
    /\ amqp = Connected
    /\ topology = WorkflowTopology
    /\ workflow_archive = {}
    /\ workflow_queue = [q \in WorkflowQueues |-> <<>>]
    /\ workflow_consumer = [q \in WorkflowQueues |-> NoWorkflowDelivery]

\* SpecWorkflowConsume: the consumers of two workflow queues; other
\* producers publish anything, every call of the Metadata Store and every
\* basic_ack may fail
NextWorkflowConsume ==
    \/ \E k \in WorkflowKeys, body \in WorkflowBodies :
         WorkflowExternalPublish(k, body)
    \/ ConsumeWorkflow({Name("enrollment.", "requests"),
                        Name("claims.", "submitted")}, BOOLEAN)

SpecWorkflowConsume == InitWorkflow /\ [][NextWorkflowConsume]_vars

\* the priorities callers pass to send_notification
Priorities == {0, 5, 9}

Notify(P, C, F) ==
    \/ \E p \in P, c \in C, priority \in Priorities :
         SendNotification(p, c, priority)
    \/ \E p \in P : NotifyArchive(p, F)
    \/ \E p \in P : NotifyPublish(p, F)

Deactivate(P, C, F) ==
    \/ \E p \in P, c \in C : DeactivateClient(p, c)
    \/ \E p \in P : DeactivateRead(p, F)
    \/ \E p \in P : DeactivateWrite(p, F)
    \/ \E p \in P : DeactivatePublish(p, F)
    \/ \E p \in P : DeactivateArchive(p, F)

\* SpecNotify: one caller at a time of send_client_message (no call fails),
\* send_notification and deactivate_client (every call may fail), on one day
NextNotify ==
    \/ Send({1}, {"A"}, {TRUE})
    \/ Notify({1}, {"A"}, BOOLEAN)
    \/ Deactivate({1}, {"A"}, BOOLEAN)
    \/ Return(1)

SpecNotify == Init /\ [][NextNotify]_vars

\* SpecMetadata: concurrent callers of send_client_message and
\* deactivate_client for one client on one day, no collaborator call fails
NextMetadata ==
    \/ Send(Procs, {"A"}, {TRUE})
    \/ Deactivate(Procs, {"A"}, {TRUE})
    \/ \E p \in Procs : Return(p)

SpecMetadata == Init /\ [][NextMetadata]_vars

\* some producer publishes `body` to insurance.workflow while no other
\* workflow message is on its way
WorkflowPublishOne(routing_key, body) ==
    /\ \A q \in WorkflowQueues :
         workflow_queue[q] = <<>> /\ workflow_consumer[q].pc = "idle"
    /\ workflow_queue' = WorkflowEnqueue(routing_key, body)
    /\ UNCHANGED <<today, amqpVars, storeVars, brokerVars, next_uuid, proc,
                   history, consumerVars, workflow_archive, workflow_consumer>>

\* SpecSettle: the consumer of client.A and the consumer of one workflow
\* queue; other producers publish any kind of body (a few messages at a
\* time), every handler and every call of the Metadata Store may fail, the
\* broker takes every basic_ack and basic_nack
NextSettle ==
    \/ \E body \in RetryBodies("A") : RetryPublish("A", body)
    \/ Deliver("A")
    \/ Handler("A", BOOLEAN)
    \/ Confirm("A", BOOLEAN)
    \/ Ack("A", {TRUE})
    \/ NackDiscard("A")
    \/ NackRequeue("A")
    \/ Settle("A")
    \/ \E body \in WorkflowBodies :
         WorkflowPublishOne(Name("claims.", "submitted"), body)
    \/ WorkflowDeliver(Name("claims.", "submitted"))
    \/ WorkflowHandler(Name("claims.", "submitted"), BOOLEAN)
    \/ WorkflowProcessed(Name("claims.", "submitted"), BOOLEAN)
    \/ WorkflowAck(Name("claims.", "submitted"), {TRUE})
    \/ WorkflowNackRequeue(Name("claims.", "submitted"))
    \/ WorkflowSettle(Name("claims.", "submitted"))

SpecSettle == InitWorkflow /\ [][NextSettle]_vars

\* SpecTenant: two tenants are deprovisioned and provisioned again while
\* producers publish for both and the consumer of client.A acks and discards;
\* no broker method fails
Tenants == {"A", "B"}

\* what a producer publishes for tenant c: a body that decodes and one that
\* does not; client_id records the routing key it was published with
TenantBodies(c) ==
    {[Malformed("not_json") EXCEPT !.client_id = c],
     Body([id |-> 1, client_id |-> c, type |-> "claim_update",
           retry_count |-> NoRetryCount])}

NextTenant ==
    \/ \E c \in Tenants : CreateClientQueue(c, NoLimit)
    \/ DeclareClientQueue({TRUE})
    \/ BindClientQueue({TRUE})
    \/ DeclareFailedQueue({TRUE})
    \/ BindFailedQueue({TRUE})
    \/ \E c \in Tenants : DeleteClientQueue(c)
    \/ DeleteMainQueue({TRUE})
    \/ DeleteFailedQueue({TRUE})
    \/ AmqpReturn
    \/ \E c \in Tenants : \E body \in TenantBodies(c) : ExternalPublish(c, body)
    \/ Deliver("A")
    \/ Handler("A", {TRUE})
    \/ Confirm("A", {TRUE})
    \/ Ack("A", {TRUE})
    \/ NackDiscard("A")
    \/ Settle("A")

SpecTenant == Init /\ [][NextTenant]_vars

(* ------------------------------ properties ----------------------------- *)
IsSend(r) == r.op = "send"

Failed(r, name) ==
    \E i \in 1..Len(r.calls) : r.calls[i].name = name /\ ~r.calls[i].ok

Succeeded(r, name) ==
    \E i \in 1..Len(r.calls) : r.calls[i].name = name /\ r.calls[i].ok

\* C1 (SpecSeq): with daily limit N, a sequential caller and no failing
\* collaborator, the i-th send_client_message call of a client on one day
\* returns 'sent' for i <= N and raises MessageLimitExceededException for
\* i = N + 1 (and every later call of that day).
C1_AdmissionBoundary ==
    \A c \in ClientIds : \A i \in 1..Len(history[c]) :
        history[c][i] = IF i <= daily_message_limit
                        THEN "sent" ELSE "limit_exceeded"

C1_Witness ==
    /\ today = MaxDay
    /\ Len(history["A"]) = daily_message_limit + 1
    /\ history["A"][daily_message_limit] = "sent"
    /\ history["A"][daily_message_limit + 1] = "limit_exceeded"

\* C2 (SpecOne): when check_message_limit has read a client's metadata whose
\* stored last_reset is not the current date, then at the moment it returns
\* its decision the stored message_count_today is 0, the stored last_reset
\* is the current date, and the decision is the one for a counter of 0.
C2_QuotaReset ==
    [][\A p \in Procs :
        LET c == proc[p].client_id IN
        (/\ proc[p].pc = "check_reset"
         /\ proc'[p].pc # "check_reset"
         /\ client_metadata[c].last_reset # today)
        => /\ client_metadata'[c].message_count_today = 0
           /\ client_metadata'[c].last_reset = today
           /\ (proc'[p].pc = "archive") <=> (0 < daily_message_limit)]_vars

\* C3 (Spec): in send_client_message no broker call is made before the
\* envelope was archived successfully; a call whose archival failed makes no
\* broker call and reports failure; and whatever a send has put on the queue
\* is in the archive.
C3_ArchiveBeforePublish ==
    \A p \in Procs :
        LET r == proc[p] IN
        IsSend(r) =>
            /\ \A j \in 1..Len(r.calls) :
                 r.calls[j].name = "publish_client_message" =>
                    \E i \in 1..(j - 1) :
                        r.calls[i] = [name |-> "upload_json", ok |-> TRUE]
            /\ Failed(r, "upload_json") =>
                 /\ ~\E j \in 1..Len(r.calls) :
                        r.calls[j].name = "publish_client_message"
                 /\ r.pc = "done" /\ r.result = "failed"
            /\ r.pc = "publish" => archive[r.message.id] = r.message
            /\ \A i \in 1..Len(queue["A"]) : archive[queue["A"][i].id].found

C3_Witness ==
    \E p \in Procs :
        /\ IsSend(proc[p]) /\ proc[p].pc = "done"
        /\ proc[p].result = "failed"
        /\ Failed(proc[p], "upload_json")
        /\ ~archive[proc[p].message.id].found

\* C4 (SpecOne): send_client_message raises MessageLimitExceededException
\* only when the quota check read the client's counter and found it at or
\* above the daily limit; it goes on to archive only when the counter read
\* was below the limit; a failed or missing read of the quota state is not
\* reported as LimitExceeded.
C4_LimitExceededDistinct ==
    \A p \in Procs :
        LET r == proc[p] IN
        IsSend(r) =>
            /\ (r.pc = "done" /\ r.result = "limit_exceeded") =>
                 /\ r.metadata.found
                 /\ r.metadata.message_count_today >= daily_message_limit
                 /\ ~Failed(r, "get_client_metadata")
            /\ r.pc = "archive" =>
                 /\ r.metadata.found
                 /\ r.metadata.message_count_today < daily_message_limit

\* C5 (SpecRace): under every interleaving of concurrent send_client_message
\* calls for one client, the stored message_count_today never exceeds the
\* daily limit (the x-max-length of the client's queue).
C5_CounterWithinLimit ==
    \A c \in Clients :
        client_metadata[c].message_count_today <= MaxLength(c)

\* C6 (SpecOne): a resend_failed_message that returns True has left the
\* archived envelope with retry_count one higher than the one it read (1 if
\* it had none) and has published that envelope; no step of a resend changes
\* the client's message_count_today or last_reset.
C6_ResendSemantics ==
    [][\A p \in Procs :
        /\ proc[p].op = "resend" => client_metadata' = client_metadata
        /\ (/\ proc[p].pc = "resend_publish"
            /\ proc'[p].pc = "done"
            /\ proc'[p].result = "true")
           => /\ archive'[proc[p].message.id] = proc[p].message
              /\ proc[p].message.retry_count >= 1
              /\ Succeeded(proc'[p], "publish_client_message")]_vars

\* number of batch items send_bulk_messages has finished with
Finished(r) == IF r.pc \in {"bulk_loop", "done"} THEN r.index ELSE r.index - 1

Bucket(r, name) ==
    CASE name = "successful" -> r.results.successful
      [] name = "failed" -> r.results.failed
      [] OTHER -> r.results.limit_exceeded

Buckets == {"successful", "failed", "limit_exceeded"}

\* the buckets that hold an entry for item i
BucketsOf(r, i) ==
    {b \in Buckets : \E k \in 1..Len(Bucket(r, b)) : Bucket(r, b)[k].item = i}

\* every finished item has one entry, in one bucket, for its own client;
\* bucket entries keep the order of the batch
Partitioned(r) ==
    /\ Len(r.results.successful) + Len(r.results.failed)
         + Len(r.results.limit_exceeded) = Finished(r)
    /\ \A i \in 1..Finished(r) : Cardinality(BucketsOf(r, i)) = 1
    /\ \A b \in Buckets : \A k \in 1..Len(Bucket(r, b)) :
         /\ Bucket(r, b)[k].client_id = r.batch[Bucket(r, b)[k].item].client_id
         /\ \A j \in 1..(k - 1) : Bucket(r, b)[j].item < Bucket(r, b)[k].item
    /\ r.pc = "done" => Finished(r) = Len(r.batch)

\* the bucket of the item just finished follows from the item itself, its
\* own client's stored counter and the results of its own collaborator calls
OwnOutcome(r) ==
    (r.pc = "bulk_loop" /\ r.index >= 1) =>
        LET item == r.batch[r.index]
            b == CHOOSE x \in Buckets : x \in BucketsOf(r, r.index)
            stored == client_metadata[item.client_id]
            denied == /\ r.calls # <<>>
                      /\ \/ r.calls[1] = [name |-> "get_client_metadata",
                                          ok |-> FALSE]
                         \/ /\ Len(r.calls) = 1
                            /\ stored.last_reset = today
                            /\ stored.message_count_today >= daily_message_limit
        IN  IF item.client_id = NoClient THEN b = "failed"
            ELSE IF denied THEN b = "limit_exceeded"
            ELSE IF ~item.type_ok THEN b = "failed"
            ELSE IF \E i \in 1..Len(r.calls) : ~r.calls[i].ok
                       /\ r.calls[i].name \in {"get_client_metadata",
                              "upload_json", "publish_client_message"}
                       /\ \A j \in 1..(i - 1) :
                            r.calls[j].name # "publish_client_message"
            THEN b = "failed"
            ELSE b = "successful"

C8_MalformedDiscard ==
    \A c \in Clients :
        (consumer[c].pc = "settled" /\ Decode(consumer[c].body) # "message")
            => consumer[c].outcome = "nack_discard"

\* C9 (SpecConsume): a delivery whose handler failed or whose Delivery
\* Confirmation could not be written is settled by basic_nack(requeue=True)
\* and not acked; a delivery is acked only if its Delivery Confirmation was
\* written successfully.
C9_FailureRequeues ==
    \A c \in Clients :
        consumer[c].pc = "settled" =>
            /\ (Failed(consumer[c], "handler")
                    \/ Failed(consumer[c], "confirmation"))
                 => consumer[c].outcome = "nack_requeue"
            /\ consumer[c].outcome = "acked" =>
                 /\ Succeeded(consumer[c], "confirmation")
                 /\ AuditKey("delivery", consumer[c].body) \in audit

\* C10 (SpecOne): a publish to client.<id> while the queue holds max-length
\* messages is not treated as sent: publish_message does not return True,
\* so the send ends as a failure (and the counter is not incremented) and a
\* resend returns False.
C10_OverflowReported ==
    [][\A p \in Procs :
        LET c == proc[p].client_id IN
        (/\ proc[p].pc \in {"publish", "resend_publish"}
         /\ proc'[p] # proc[p]
         /\ c \in Clients
         /\ Len(queue[c]) >= MaxLength(c))
        => /\ proc'[p].pc = "done"
           /\ proc'[p].result \in {"failed", "false"}]_vars
\* C11 (SpecOrder): with one consumer at prefetch 1, a message published to
\* client.A after another is not dispatched while the earlier one is still
\* unsettled or waiting in the queue (also after a requeue): the unsettled
\* delivery followed by the queue is always in publish order, so X is acked
\* before Y is dispatched.
C11_Ordering ==
    LET pending == Unsettled("A") \o queue["A"]
    IN  \A i, j \in 1..Len(pending) : i < j => pending[i].id < pending[j].id

\* the second message is dispatched; the confirmation of the first is
\* written, that of the second is not
C11_Witness ==
    /\ consumer["A"].pc = "received"
    /\ consumer["A"].body.id = 2
    /\ AuditKey("delivery", [client_id |-> "A", id |-> 1]) \in audit
    /\ AuditKey("delivery", consumer["A"].body) \notin audit
\* C12 (SpecAdmin): when reset_daily_limits returns True, the stored
\* message_count_today of the client is 0, whatever the stored last_reset
\* was when it was called (today's date included).
C12_AdminReset ==
    [][\A p \in Procs :
        (/\ proc[p].op = "reset"
         /\ proc'[p].pc = "done"
         /\ proc'[p].result = "true")
        => client_metadata'[proc[p].client_id].message_count_today = 0]_vars
\* C13 (SpecTopology): whenever connect() or reconnect() has returned and
\* is_connected() is true, the three exchanges were declared over the
\* current connection (and exist on the broker); a connect() in which an
\* exchange declaration failed leaves the manager not connected, so the
\* application does not run on it.
C13_ConnectedImpliesTopology ==
    LET all == {Exchanges[i] : i \in 1..Len(Exchanges)} IN
    /\ (is_connected /\ amqp.pc \in {"idle", "done"}) =>
         /\ amqp.declared = all
         /\ all \subseteq topology.exchanges
    /\ (/\ amqp.pc = "done"
        /\ amqp.op \in {"connect", "reconnect"}
        /\ Failed(amqp, "exchange_declare")) => ~is_connected
    /\ amqp.app = "running" =>
         \/ amqp.last.op \notin {"connect", "reconnect"}
         \/ amqp.last.result
         \/ ~is_connected
\* the queues and bindings of client c on the broker
QueuesOf(t, c) == {q \in t.queues : q.name.id = c}
BindingsOf(t, c) == {b \in t.bindings : b.queue.id = c}

\* C14 (SpecTopology): create_client_queue returns True only if its four
\* broker calls succeeded, and then the broker holds exactly the two queues
\* of the client with the arguments of the call and their two bindings; it
\* returns False if a step failed; and a call that repeats, with the same
\* arguments, a call that returned False returns True (on a broker that
\* holds the three exchanges and refuses none of the calls).
C14_ProvisionAllOrNothing ==
    [][(/\ amqp'.op = "create_client_queue"
        /\ amqp.pc # "done" /\ amqp'.pc = "done")
       => LET c == amqp'.client_id
              again == /\ amqp'.last = [op |-> "create_client_queue",
                                        client_id |-> c,
                                        message_limit |-> amqp'.message_limit,
                                        result |-> FALSE]
                       /\ topology.exchanges = Registered.exchanges
          IN  /\ amqp'.result =>
                   /\ Len(amqp'.calls) = 4
                   /\ \A i \in 1..4 : amqp'.calls[i].ok
                   /\ QueuesOf(topology', c) =
                        ClientQueues(c, amqp'.message_limit)
                   /\ BindingsOf(topology', c) = ClientBindings(c)
              /\ ~amqp'.result =>
                   \/ amqp'.calls = <<>>
                   \/ ~amqp'.calls[Len(amqp'.calls)].ok
              /\ (again /\ ~amqp'.refused) => amqp'.result]_vars
\* C15 (SpecTopology): when delete_client_queue returns True neither
\* client.<id> nor failed.<id> exists (nor a binding of theirs); and on an
\* open channel it returns True whenever no call breaks down, whether the
\* two queues, one of them or none existed when it was called.
C15_DeprovisionIdempotent ==
    [][(/\ amqp'.op = "delete_client_queue"
        /\ amqp.pc # "done" /\ amqp'.pc = "done")
       => LET c == amqp'.client_id
          IN  /\ amqp'.result =>
                   /\ QueuesOf(topology', c) = {}
                   /\ BindingsOf(topology', c) = {}
              /\ (amqp.channel = "open" /\ ~amqp'.fault) => amqp'.result]_vars

\* a delete that returns True right after a delete that returned True: both
\* queues were missing when it was called
C15_Witness ==
    /\ amqp.op = "delete_client_queue" /\ amqp.pc = "done" /\ amqp.result
    /\ amqp.last = [op |-> "delete_client_queue", client_id |-> "A",
                    message_limit |-> NoLimit, result |-> TRUE]
    /\ QueuesOf(topology, "A") = {}
\* C16 (SpecTopology): the x-max-length of every declared client queue is the
\* daily limit check_message_limit compares message_count_today against,
\* whatever message_limit create_client_queue was called with.
C16_QuotaQueueConsistent ==
    \A q \in topology.queues :
        q.name.prefix = "client." =>
            \A count \in 0..(daily_message_limit + 1) :
                Allowed([message_count_today |-> count])
                    <=> count < q.arguments.max_length
\* C17 (SpecConsume): every processing attempt of a client message adds a
\* Delivery Confirmation of its own: the write of an attempt never goes to a
\* key an earlier attempt wrote, and an attempt is settled (acked or
\* nacked) only with its confirmation written.
C17_ConfirmationsAppendOnly ==
    [][\A c \in Clients :
        /\ (/\ consumer'[c].pc = "ack" /\ consumer[c].pc # "ack"
            /\ Succeeded(consumer'[c], "confirmation"))
           => AuditKey("delivery", consumer[c].body) \notin audit
        /\ (/\ consumer'[c].pc = "settled" /\ consumer[c].pc # "settled"
            /\ Decode(consumer[c].body) = "message")
           => Succeeded(consumer'[c], "confirmation")]_vars
\* number of copies of body b in the sequence q
Copies(q, b) == Cardinality({i \in 1..Len(q) : q[i] = b})

\* C18 (SpecRetry): every message delivered from client.A is eventually
\* acked, or nacked without requeue, or dead-lettered to failed.A when its
\* TTL has run out; none is requeued and redelivered forever, whatever fails
\* in each attempt.
C18_NoUnboundedRetry ==
    \A b \in RetryBodies("A") :
        \A n \in 0..MaxDead :
            (/\ consumer["A"].pc = "received"
             /\ consumer["A"].body = b
             /\ Copies(failed_queue["A"], b) = n)
            ~> \/ /\ consumer["A"].pc = "settled"
                  /\ consumer["A"].body = b
                  /\ consumer["A"].outcome \in {"acked", "nack_discard"}
               \/ Copies(failed_queue["A"], b) > n

\* a body that is requeued at every attempt (invalid UTF-8) is back at the
\* head of the queue after an attempt, nothing dead-lettered yet
C18_Witness ==
    /\ consumer["A"].pc = "settled"
    /\ consumer["A"].outcome = "nack_requeue"
    /\ consumer["A"].body = Malformed("bad_utf8")
    /\ Head(queue["A"]) = consumer["A"].body
    /\ failed_queue["A"] = <<>>
\* C19 (SpecOne): a publisher operation in which a Metadata Store write
\* failed (the reset write of the quota check, the counter write after the
\* publish, an archive write) does not report success: send_client_message
\* does not return the 'sent' result and resend_failed_message does not
\* return True.
C19_ErrorsNotSwallowed ==
    \A p \in Procs :
        (/\ proc[p].op \in {"send", "resend"}
         /\ proc[p].pc = "done"
         /\ \/ Failed(proc[p], "update_client_metadata")
            \/ Failed(proc[p], "upload_json"))
        => proc[p].result \notin {"sent", "true"}

\* position of the first call `name` in the calls of r (0 if there is none)
FirstCall(r, name) ==
    IF \E i \in 1..Len(r.calls) : r.calls[i].name = name
    THEN CHOOSE i \in 1..Len(r.calls) :
            /\ r.calls[i].name = name
            /\ \A j \in 1..(i - 1) : r.calls[j].name # name
    ELSE 0

\* C20 (Spec): the stored counter of a client goes up only in the counter
\* write of a send_client_message whose publish reported success; a send
\* whose archive or publish failed reports failure and has made no counter
\* write after its quota check; and after a failed publish the envelope is
\* in the archive.
C20_IncrementAfterPublish ==
    [][/\ \A c \in Clients :
            client_metadata'[c].message_count_today
                > client_metadata[c].message_count_today
            => \E p \in Procs :
                /\ IsSend(proc[p]) /\ proc[p].pc = "incr_write"
                /\ proc[p].client_id = c /\ proc'[p] # proc[p]
                /\ Succeeded(proc[p], "publish_client_message")
       /\ \A p \in Procs :
            LET r == proc'[p] IN
            (/\ IsSend(r) /\ r.pc = "done" /\ proc[p].pc # "done"
             /\ \/ Failed(r, "upload_json")
                \/ Failed(r, "publish_client_message"))
            => /\ r.result = "failed"
               /\ client_metadata' = client_metadata
               /\ \A i \in 1..Len(r.calls) :
                    r.calls[i].name = "update_client_metadata"
                        => i < FirstCall(r, "upload_json")
               /\ Failed(r, "publish_client_message")
                    => archive'[r.message.id] = r.message]_vars

\* a send whose publish failed: reported as failed, envelope archived,
\* counter still 0
C20_Witness ==
    \E p \in Procs :
        /\ IsSend(proc[p]) /\ proc[p].pc = "done"
        /\ proc[p].result = "failed"
        /\ Failed(proc[p], "publish_client_message")
        /\ archive[proc[p].message.id] = proc[p].message
        /\ client_metadata["A"].message_count_today = 0
        /\ queue["A"] = <<>>
\* C21 (SpecRace): a quota check sets a client's stored counter to 0 only
\* as the first check of the day: a reset write of check_message_limit that
\* hits a record whose stored last_reset is already today takes back no
\* increment recorded that day.
C21_OneDailyReset ==
    [][\A p \in Procs :
        LET c == proc[p].client_id IN
        (/\ proc[p].pc = "check_reset"
         /\ proc'[p] # proc[p]
         /\ Succeeded(proc'[p], "update_client_metadata")
         /\ client_metadata[c].last_reset = today)
        => client_metadata'[c].message_count_today
             >= client_metadata[c].message_count_today]_vars

\* the calls of the quota state a recording stub would log
QuotaCalls == {"get_client_metadata", "update_client_metadata"}

\* C22 (SpecWorkflow): no step of send_workflow_message reads or writes a
\* client's metadata record (message_count_today, last_reset), whether the
\* call succeeds or fails, and no call is turned away as over the limit.
C22_WorkflowNotMetered ==
    [][\A p \in Procs :
        (proc'[p].op = "workflow" /\ proc'[p] # proc[p])
        => /\ client_metadata' = client_metadata
           /\ \A i \in 1..Len(proc'[p].calls) :
                proc'[p].calls[i].name \notin QuotaCalls
           /\ proc'[p].result # "limit_exceeded"]_vars

\* more workflow messages than the daily limit were sent on one day, the last
\* of them delivered to a workflow queue, and no counter moved
C22_Witness ==
    \E p \in Procs :
        /\ proc[p].op = "workflow"
        /\ proc[p].result = "sent"
        /\ proc[p].message.id > daily_message_limit
        /\ \E q \in WorkflowQueues :
             \E i \in 1..Len(workflow_queue[q]) :
                workflow_queue[q][i].body.id = proc[p].message.id
        /\ \A c \in Clients : client_metadata[c].message_count_today = 0

\* C23 (SpecWorkflowConsume): a delivery to process_workflow_message whose
\* body does not decode to a JSON envelope is settled with
\* basic_nack(requeue=False): it is never put back on its queue.
C23_WorkflowMalformedDiscard ==
    \A q \in WorkflowQueues :
        (/\ workflow_consumer[q].pc = "settled"
         /\ Decode(workflow_consumer[q].body) # "message")
        => /\ workflow_consumer[q].outcome = "nack_discard"
           /\ \A i \in 1..Len(workflow_queue[q]) :
                workflow_queue[q][i].body # workflow_consumer[q].body

\* C24 (SpecWorkflow): once setup_workflow_queues has returned True, every
\* workflow message published with a routing key enrollment.<x>, claims.<x>
\* or payments.<x> is put on at least one workflow queue of that domain.
C24_WorkflowDomainRouting ==
    [][\A p \in Procs :
        (/\ amqp.last.op = "setup_workflow_queues" /\ amqp.last.result
         /\ proc[p].pc = "workflow_publish"
         /\ proc[p].message.routing_key.prefix \in Domains
         /\ proc'[p].result = "sent")
        => \E q \in WorkflowQueues :
             /\ q.prefix = proc[p].message.routing_key.prefix
             /\ Len(workflow_queue'[q]) = Len(workflow_queue[q]) + 1]_vars

\* C25 (SpecNotify): the priority property of the broker message that
\* send_notification publishes is the priority of its envelope.
C25_PriorityCarried ==
    \A p \in Procs :
        proc[p].op = "notify"
        => \A i \in 1..Len(proc[p].calls) :
             (proc[p].calls[i].name = "publish_client_message"
              /\ proc[p].calls[i].ok)
             => proc[p].calls[i].properties.priority
                    = proc[p].message.priority

\* C26 (SpecNotify): every envelope held by client.<c> has an archived copy
\* of the same id under /clients/<c>/messages/.
C26_PublishedIsArchived ==
    \A c \in Clients :
        \A i \in 1..Len(queue[c]) :
            /\ archive[queue[c][i].id].found
            /\ archive[queue[c][i].id].client_id = c

\* C27 (SpecNotify): between two operations, every message that was put on
\* client.<c> today was counted: the queue holds no more messages than the
\* client's counter says were sent.
C27_PublishMetered ==
    (\A p \in Procs : proc[p].op = "idle")
    => \A c \in Clients :
         Len(queue[c]) <= client_metadata[c].message_count_today

\* C28 (SpecMetadata): every increment that send_client_message writes
\* raises the stored counter by one, and a write of deactivate_client leaves
\* message_count_today and last_reset as they are stored.
C28_NoLostUpdate ==
    [][\A p \in Procs :
        LET c == proc[p].client_id IN
        /\ (/\ proc[p].pc = "incr_write"
            /\ proc'[p] # proc[p])
           => client_metadata'[c].message_count_today
                = client_metadata[c].message_count_today + 1
        /\ (/\ proc[p].pc = "deactivate_write"
            /\ proc'[p] # proc[p])
           => /\ client_metadata'[c].message_count_today
                   = client_metadata[c].message_count_today
              /\ client_metadata'[c].last_reset
                   = client_metadata[c].last_reset]_vars

\* the basic_ack and basic_nack calls a delivery has seen
Terminal(d) ==
    {i \in 1..Len(d.calls) : d.calls[i].name \in {"basic_ack", "basic_nack"}}

\* exactly one basic_ack or basic_nack, and it is the one the outcome names
OneOutcome(d) ==
    /\ Cardinality(Terminal(d)) = 1
    /\ d.outcome \in {"acked", "nack_requeue", "nack_discard"}
    /\ \A i \in Terminal(d) :
         d.calls[i].name = (IF d.outcome = "acked" THEN "basic_ack"
                            ELSE "basic_nack")

TenantsOf(q) == {q[i].client_id : i \in 1..Len(q)}

\* C30 (SpecTenant): a message published with routing key A is only ever
\* held by client.A, delivered to the consumer of client.A and, when it is
\* dead-lettered, held by failed.A, whatever was provisioned, deprovisioned,
\* published, consumed or nacked before.
C30_TenantIsolation ==
    \A x \in Clients :
        /\ TenantsOf(queue[x]) \subseteq {x}
        /\ TenantsOf(failed_queue[x]) \subseteq {x}
        /\ consumer[x].pc # "idle" => consumer[x].body.client_id = x

\* after B was deprovisioned and provisioned again, client.A and client.B
\* each hold a message of their own and failed.A holds a dead-lettered one
C30_Witness ==
    /\ amqp.last.op = "create_client_queue"
    /\ amqp.last.client_id = "B"
    /\ amqp.last.result
    /\ queue["A"] # <<>>
    /\ queue["B"] # <<>>
    /\ failed_queue["A"] # <<>>
    /\ failed_queue["B"] = <<>>
====
